---- MODULE Spec2Model ----
(***************************************************************************)
(* Layout reconstruction and cross-page span extraction of the newspaper   *)
(* pipeline: newspaper_layout_processor.py (column boundaries, column/row  *)
(* assignment, bottom-edge correction) and                                 *)
(* raw_strike_description_collector.py (marker-to-stop traversal).         *)
(*                                                                         *)
(* Conventions.  Pages of the corpus are numbered 1..Len(all_pairs) (the   *)
(* source counts from 0).  A shape is a record; a key the JSON object does *)
(* not carry is a field the record does not have, so `"k" in shape` is     *)
(* "k" \in DOMAIN shape.  Python's None is the integer None below, and a   *)
(* text that is None or empty is the empty string (the source only tests   *)
(* texts for truthiness).  The string returned by collect_column_content   *)
(* is "\n\n".join(content_parts); the model keeps content_parts, the       *)
(* sequence of fragments, a fragment being [tag, text].                    *)
(***************************************************************************)
EXTENDS Integers, Sequences, FiniteSets, TLC

VARIABLES
    all_pairs,         \* the corpus: the page records in natural-sort order
    start_file_index,  \* collect_column_content: index of the marker's page
    start_shape,       \* collect_column_content: the marker shape
    pc,                \* position in collect_column_content
    file_idx,          \* loop variable of the running pass
    stop,              \* <<stop_file, stop_col, stop_row>> of the search pass
    content_parts,     \* fragments collected so far
    collected,         \* where each fragment came from: <<page, column, row>>
    failedS,           \* a page load raised in the stop-search pass
    failedC,           \* a page load raised in the collection pass
    runs,              \* results of the calls completed so far
    data,              \* the page record the layout processor works on
    boundaries,        \* <<boundary1, boundary2>> of that page, in twelfths
    loaded,            \* that record as it was read from its file
    lpc,               \* position in the layout processor
    page_text,         \* extract_newspaper_text: the parts of the page's text
    pairs,             \* the page identifiers found, then sorted
    loop_i,            \* pages a corpus-level loop has gone through
    found_columns,     \* process_files: spans saved
    successful,        \* layout processor main: pages processed
    failed,            \* layout processor main: pages that failed
    outputs,           \* the files written, as <<page, record>>
    raised,            \* the pages on which an exception was caught
    bpc                \* position in the corpus-level run

collectorVars == <<all_pairs, start_file_index, start_shape, pc, file_idx, stop,
                   content_parts, collected, failedS, failedC, runs>>

layoutVars == <<data, boundaries, loaded, lpc>>

batchVars == <<page_text, pairs, loop_i, found_columns, successful, failed,
               outputs, raised, bpc>>

vars == <<collectorVars, layoutVars, batchVars>>

----------------------------------------------------------------------------
(* Bounds of the model.                                                    *)

MaxPages == 2

MaxShapes == 3

MaxRuns == 3

MaxCandidates == 4

MaxLayoutShapes == 3

\* shapes on a page whose shapes lie at various heights
MaxGeometryShapes == 3
\* shapes on a page of the text extraction
MaxStreamShapes == 4
\* page identifiers sorted at once, and the characters of one
MaxNames == 2
MaxNameLen == 3
\* pages the layout processor is run over
MaxBatchPages == 3
\* pages, and shapes on a page, that go through both phases
MaxPipelinePages == 2
MaxPipelineShapes == 2
\* shapes on the page of the marker test
MaxMarkerShapes == 2

None == 0 - 1

NoText == ""

\* (None, None, None)
NoStop == <<None, None, None>>

----------------------------------------------------------------------------
(* Generic helpers.                                                        *)

\* list.sort(key=...): a stable sort; less[a, b] is key(s[a]) < key(s[b]).
SortBy(s, less) ==
    LET Ranked(rank) ==
            <<>> \o [p \in 1..Len(s) |-> s[CHOOSE i \in 1..Len(s) : rank[i] = p]]
    IN  Ranked(<<>> \o [i \in 1..Len(s) |->
                   Cardinality({j \in 1..Len(s) :
                       less[j, i] \/ (~less[i, j] /\ j < i)}) + 1])

----------------------------------------------------------------------------
(* Texts.  Chars gives the characters of a text, one string per code     *)
(* point ("O^" and "E^" stand for the accented capitals of the column's    *)
(* printed name, "o^" and "e^" for the small letters).  But for            *)
(* BlankText and PaddedText the texts carry no leading or trailing         *)
(* whitespace, so str.strip() leaves them as they are.                     *)

MarkerText == "TO^KE E^S MUNKA"

OtherText == "HIREK"

BodyText == "x"

TitleText == "NEPSZAVA"

\* the two words in the other order, in small letters with other words and
\* a double blank between them, each word alone, and a word broken by a blank
ReversedText == "MUNKA E^S TO^KE"

ApartText == "to^ke  x munka"

TokeOnlyText == "TO^KE"

MunkaOnlyText == "MUNKA"

SplitText == "TO^ KE MUNKA"

\* Values a field of a shape record may hold besides the texts above: JSON
\* null, the numbers 0 and 7, a blank string and a padded one.  The field
\* ocr_text of a shape stands for tesseract_output["ocr_text"] of a
\* tesseract_output that is a dict holding that key.
JsonNull == "<null>"

JsonZero == "<0>"

JsonSeven == "<7>"

BlankText == " "

PaddedText == " x "

\* str(7)
SevenText == "7"

\* what stands for a call that raises AttributeError
Raised == "<raised>"

Chars(text) ==
    CASE text = MarkerText ->
           <<"T", "O^", "K", "E", " ", "E^", "S", " ", "M", "U", "N", "K", "A">>
      [] text = OtherText -> <<"H", "I", "R", "E", "K">>
      [] text = BodyText -> <<"x">>
      [] text = TitleText -> <<"N", "E", "P", "S", "Z", "A", "V", "A">>
      [] text = ReversedText ->
           <<"M", "U", "N", "K", "A", " ", "E^", "S", " ", "T", "O^", "K", "E">>
      [] text = ApartText ->
           <<"t", "o^", "k", "e", " ", " ", "x", " ", "m", "u", "n", "k", "a">>
      [] text = TokeOnlyText -> <<"T", "O^", "K", "E">>
      [] text = MunkaOnlyText -> <<"M", "U", "N", "K", "A">>
      [] text = SplitText ->
           <<"T", "O^", " ", "K", "E", " ", "M", "U", "N", "K", "A">>
      [] text = BlankText -> <<" ">>
      [] text = PaddedText -> <<" ", "x", " ">>
      [] text = SevenText -> <<"7">>
      [] OTHER -> <<>>

\* str.lower() on one character
Lower(c) ==
    CASE c = "A" -> "a" [] c = "E" -> "e" [] c = "H" -> "h" [] c = "I" -> "i"
      [] c = "K" -> "k" [] c = "M" -> "m" [] c = "N" -> "n" [] c = "P" -> "p"
      [] c = "R" -> "r" [] c = "S" -> "s" [] c = "T" -> "t" [] c = "U" -> "u"
      [] c = "V" -> "v" [] c = "Z" -> "z" [] c = "O^" -> "o^" [] c = "E^" -> "e^"
      [] OTHER -> c

\* NFD decomposition followed by dropping the combining marks (category Mn)
remove_accents(chars) ==
    <<>> \o [i \in 1..Len(chars) |->
                CASE chars[i] = "o^" -> "o" [] chars[i] = "O^" -> "O"
                  [] chars[i] = "e^" -> "e" [] chars[i] = "E^" -> "E"
                  [] OTHER -> chars[i]]

\* re.sub(r'\s+', ' ', s).strip(): the characters that do not follow a blank,
\* without a leading or trailing blank
CollapseSpaces(chars) ==
    LET Kept(at) == <<>> \o [p \in 1..Len(at) |-> chars[at[p]]]
    IN  Kept(SelectSeq(<<>> \o [i \in 1..Len(chars) |-> i],
                       LAMBDA i : chars[i] # " " \/
                                  (i > 1 /\ chars[i-1] # " " /\
                                   \E j \in i+1..Len(chars) : chars[j] # " ")))

normalize_text_for_search(text) ==
    IF text = NoText THEN <<>>
    ELSE LET Lowered(chars) == <<>> \o [i \in 1..Len(chars) |-> Lower(chars[i])]
         IN  CollapseSpaces(remove_accents(Lowered(Chars(text))))

\* Python's `variant in normalized` on strings
IsSubstring(word, chars) ==
    \E k \in 0..(Len(chars) - Len(word)) :
        \A i \in 1..Len(word) : chars[k + i] = word[i]

contains_toke_munka_either(text) ==
    IF text = NoText THEN FALSE
    ELSE LET has_toke(normalized) ==
                 IsSubstring(<<"t", "o^", "k", "e">>, normalized)
                     \/ IsSubstring(<<"t", "o", "k", "e">>, normalized)
             has_munka(normalized) ==
                 IsSubstring(<<"m", "u", "n", "k", "a">>, normalized)
             Both(normalized) == has_toke(normalized) \/ has_munka(normalized)
         IN  Both(normalize_text_for_search(text))

contains_toke_munka(text) ==
    IF text = NoText THEN FALSE
    ELSE LET has_toke(normalized) ==
                 IsSubstring(<<"t", "o^", "k", "e">>, normalized)
                     \/ IsSubstring(<<"t", "o", "k", "e">>, normalized)
             has_munka(normalized) ==
                 IsSubstring(<<"m", "u", "n", "k", "a">>, normalized)
             Both(normalized) == has_toke(normalized) /\ has_munka(normalized)
         IN  Both(normalize_text_for_search(text))

\* bool(value): None, "" and 0 are false
Truthy(value) == value \notin {JsonNull, NoText, JsonZero}

\* the value has a strip method
IsStr(value) == value \notin {JsonNull, JsonZero, JsonSeven}

\* str.strip()
Strip(text) ==
    IF text = BlankText THEN NoText
    ELSE IF text = PaddedText THEN BodyText
    ELSE text

\* str(value) of a value that is true
Str(value) == IF value = JsonSeven THEN SevenText ELSE value

\* if ocr_text and ocr_text.strip(): return ocr_text.strip()
OcrText(shape) ==
    IF "ocr_text" \notin DOMAIN shape THEN NoText
    ELSE IF ~Truthy(shape.ocr_text) THEN NoText
    ELSE IF ~IsStr(shape.ocr_text) THEN Raised
    ELSE Strip(shape.ocr_text)

\* for field in fields: if field in shape and shape[field] and
\* str(shape[field]).strip(): return str(shape[field]).strip()
FirstField(shape, fields) ==
    LET Stripped(k) == Strip(Str(shape[fields[k]]))
        hits == {k \in 1..Len(fields) :
                    /\ fields[k] \in DOMAIN shape
                    /\ Truthy(shape[fields[k]])
                    /\ Stripped(k) # NoText}
    IN  IF hits = {} THEN NoText
        ELSE Stripped(CHOOSE k \in hits : \A j \in hits : k <= j)

\* if "text" in shape and shape["text"].strip(): return shape["text"].strip()
DirectText(shape) ==
    IF "text" \notin DOMAIN shape THEN NoText
    ELSE IF ~IsStr(shape.text) THEN Raised
    ELSE Strip(shape.text)

\* extract_text_from_shape of extract_newspaper_text.py: NoText for None
extract_newspaper_text_extract_text_from_shape(shape) ==
    IF OcrText(shape) # NoText THEN OcrText(shape)
    ELSE IF DirectText(shape) # NoText THEN DirectText(shape)
    ELSE FirstField(shape, <<"description", "content", "value">>)

extract_text_from_shape_text_first(shape) ==
    IF FirstField(shape, <<"text">>) # NoText
    THEN FirstField(shape, <<"text">>)
    ELSE IF OcrText(shape) # NoText THEN OcrText(shape)
    ELSE FirstField(shape, <<"description", "content", "value">>)

\* extract_text_from_shape of raw_strike_description_collector.py: NoText
\* for None
extract_text_from_shape(shape) ==
    IF OcrText(shape) # NoText THEN OcrText(shape)
    ELSE FirstField(shape, <<"text", "description", "content", "value">>)

----------------------------------------------------------------------------
(* newspaper_layout_processor.py.  Coordinates are integers.  The source   *)
(* divides (centers are halves, the equal thirds are thirds, gap midpoints *)
(* are quarters): every horizontal quantity that is compared or returned   *)
(* is kept exactly, as a whole number of twelfths.                         *)

Tolerance == 50

DefaultImageWidth == 3000

Min(S) == CHOOSE x \in S : \A y \in S : x <= y

Max(S) == CHOOSE x \in S : \A y \in S : x >= y

XCoords(shape) == {shape.points[i][1] : i \in 1..Len(shape.points)}

YCoords(shape) == {shape.points[i][2] : i \in 1..Len(shape.points)}

\* (min(x_coords) + max(x_coords)) / 2, or 0.0; in twelfths
get_element_center_x(shape) ==
    IF Len(shape.points) >= 2
    THEN 6 * (Min(XCoords(shape)) + Max(XCoords(shape)))
    ELSE 0

\* <<x1, y1, x2, y2>>, in layout units
get_element_bounds(shape) ==
    IF Len(shape.points) >= 2
    THEN <<Min(XCoords(shape)), Min(YCoords(shape)),
           Max(XCoords(shape)), Max(YCoords(shape))>>
    ELSE <<0, 0, 0, 0>>

\* data.get("imageWidth", 3000)
ImageWidth(page) ==
    IF "imageWidth" \in DOMAIN page THEN page.imageWidth ELSE DefaultImageWidth

EqualThirdsFloorDivided(image_width) ==
    <<12 * (image_width \div 3), 12 * ((2 * image_width) \div 3)>>

\* image_width / 3, 2 * image_width / 3; in twelfths
EqualThirds(image_width) == <<4 * image_width, 8 * image_width>>

\* centers.sort()
NumberLess(a, b) == a < b

GapGreaterLeftmostFirst(a, b) == a[1] > b[1] \/ (a[1] = b[1] /\ a[2] < b[2])

GapGreaterNotReversed(a, b) == a[1] < b[1] \/ (a[1] = b[1] /\ a[2] < b[2])

\* gaps.sort(reverse=True) on the tuples (gap_size, gap_mid)
GapGreater(a, b) == a[1] > b[1] \/ (a[1] = b[1] /\ a[2] > b[2])

\* the pair sorted([boundary1, boundary2])
SortedPair(a, b) == IF a <= b THEN <<a, b>> ELSE <<b, a>>

detect_column_boundaries(shapes, image_width) ==
    LET SortCenters(unsorted) ==
            SortBy(unsorted, [a, b \in 1..Len(unsorted) |->
                                 NumberLess(unsorted[a], unsorted[b])])
        SortGaps(unsorted) ==
            SortBy(unsorted, [a, b \in 1..Len(unsorted) |->
                                 GapGreater(unsorted[a], unsorted[b])])
        \* centers = [get_element_center_x(elem) for ...]; centers.sort()
        CentersOf(single_col_elements) ==
            SortCenters(<<>> \o [i \in 1..Len(single_col_elements) |->
                            get_element_center_x(single_col_elements[i])])
        \* gaps.append((gap_size, gap_mid)); gaps.sort(reverse=True)
        GapsOf(centers) ==
            SortGaps(<<>> \o [i \in 1..Len(centers) - 1 |->
                         <<centers[i + 1] - centers[i],
                           (centers[i + 1] + centers[i]) \div 2>>])
        FromGaps(gaps) ==
            IF Len(gaps) >= 2 THEN SortedPair(gaps[1][2], gaps[2][2])
            ELSE EqualThirds(image_width)
        FromCenters(centers) ==
            IF Len(centers) < 3 THEN EqualThirds(image_width)
            ELSE FromGaps(GapsOf(centers))
        FromElements(single_col_elements) ==
            IF Len(single_col_elements) = 0 THEN EqualThirds(image_width)
            ELSE FromCenters(CentersOf(single_col_elements))
    IN  FromElements(SelectSeq(shapes, LAMBDA sh :
                                   sh.label \in {"szoveg", "hasabkozi_cim"}))

assign_column_number_inclusive(center_x, boundary1, boundary2) ==
    IF center_x <= boundary1 THEN 1
    ELSE IF center_x <= boundary2 THEN 2
    ELSE 3

assign_column_number(center_x, boundary1, boundary2) ==
    IF center_x < boundary1 THEN 1
    ELSE IF center_x < boundary2 THEN 2
    ELSE 3

SetKeyIfAbsent(shape, key, value) == shape @@ (key :> value)

\* shape[key] = value
SetKey(shape, key, value) == (key :> value) @@ shape

ColumnForWideAtThreshold(shape, image_width, boundary1, boundary2) ==
    LET AdColumn(b) ==
            IF 12 * (b[3] - b[1]) >= 6 * image_width THEN 0
            ELSE assign_column_number(6 * (b[1] + b[3]), boundary1, boundary2)
    IN  IF shape.label \in {"szoveg", "hasabkozi_cim"}
        THEN assign_column_number(get_element_center_x(shape), boundary1, boundary2)
        ELSE IF shape.label \in {"oldalfejlec", "szeles_cim"} THEN 0
        ELSE IF shape.label = "hirdetes" THEN AdColumn(get_element_bounds(shape))
        ELSE assign_column_number(get_element_center_x(shape), boundary1, boundary2)

\* process_page_layout, "Assign column numbers to appropriate elements": the
\* column_number written on the shape
ColumnFor(shape, image_width, boundary1, boundary2) ==
    LET \* width > 1.5 * avg_column_width
        AdColumn(b) ==
            IF 12 * (b[3] - b[1]) > 6 * image_width THEN 0
            ELSE assign_column_number(6 * (b[1] + b[3]), boundary1, boundary2)
    IN  IF shape.label \in {"szoveg", "hasabkozi_cim"}
        THEN assign_column_number(get_element_center_x(shape), boundary1, boundary2)
        ELSE IF shape.label \in {"oldalfejlec", "szeles_cim"} THEN 0
        ELSE IF shape.label = "hirdetes" THEN AdColumn(get_element_bounds(shape))
        ELSE assign_column_number(get_element_center_x(shape), boundary1, boundary2)

RowForByBottom(shapes, columns, i) ==
    LET RowOf(sorted) == CHOOSE r \in 1..Len(sorted) : sorted[r] = i
        SortByTop(column_list, top) ==
            SortBy(column_list, [a, b \in 1..Len(column_list) |-> top[a] < top[b]])
        Sorted(column_list) ==
            SortByTop(column_list,
                      <<>> \o [a \in 1..Len(column_list) |->
                                  get_element_bounds(shapes[column_list[a]])[4]])
    IN  RowOf(Sorted(SelectSeq([k \in 1..Len(shapes) |-> k],
                               LAMBDA k : columns[k] = columns[i])))

\* assign_row_numbers on shapes_by_column; `columns` is the column_number of
\* each shape.  The row_number of shape i, which stands in a band.
RowFor(shapes, columns, i) ==
    LET RowOf(sorted) == CHOOSE r \in 1..Len(sorted) : sorted[r] = i
        SortByTop(column_list, top) ==
            SortBy(column_list, [a, b \in 1..Len(column_list) |-> top[a] < top[b]])
        Sorted(column_list) ==
            SortByTop(column_list,
                      <<>> \o [a \in 1..Len(column_list) |->
                                  get_element_bounds(shapes[column_list[a]])[2]])
    IN  RowOf(Sorted(SelectSeq([k \in 1..Len(shapes) |-> k],
                               LAMBDA k : columns[k] = columns[i])))

\* the indices of the shapes find_elements_below returns for shape i
find_elements_below_closed(i, all_shapes, tolerance) ==
    LET Near(b, o) ==
            /\ o[2] >= b[4] - tolerance
            /\ o[2] <= b[4] + tolerance * 3
            /\ ~(o[3] < b[1] \/ o[1] > b[3])
        Below(b) ==
            {k \in 1..Len(all_shapes) :
                k # i /\ Near(b, get_element_bounds(all_shapes[k]))}
    IN  Below(get_element_bounds(all_shapes[i]))

find_elements_below(i, all_shapes, tolerance) ==
    LET Near(b, o) ==
            /\ o[2] > b[4] - tolerance
            /\ o[2] < b[4] + tolerance * 3
            /\ ~(o[3] < b[1] \/ o[1] > b[3])
        Below(b) ==
            {k \in 1..Len(all_shapes) :
                k # i /\ Near(b, get_element_bounds(all_shapes[k]))}
    IN  Below(get_element_bounds(all_shapes[i]))

\* correct_szoveg_coordinates: the indices of bottommost_candidates
BottommostCandidates(shapes, image_width) ==
    LET ColumnsBy(bd) ==
            <<>> \o [k \in 1..Len(shapes) |->
                        assign_column_number(get_element_center_x(shapes[k]),
                                             bd[1], bd[2])]
        \* szoveg_by_column[column_num]
        SzovegIn(column, c) ==
            SelectSeq([k \in 1..Len(shapes) |-> k],
                      LAMBDA k : shapes[k].label = "szoveg" /\ column[k] = c)
        \* max(column_shapes, key=lambda s: get_element_bounds(s)[3])
        ByBottom(column_shapes, bottom) ==
            SortBy(column_shapes,
                   [a, b \in 1..Len(column_shapes) |->
                       bottom[column_shapes[a]] > bottom[column_shapes[b]]])
        Unobstructed(k) ==
            IF find_elements_below(k, shapes, Tolerance) = {} THEN {k} ELSE {}
        Bottommost(column_shapes, bottom) ==
            IF Len(column_shapes) = 0 THEN {}
            ELSE Unobstructed(ByBottom(column_shapes, bottom)[1])
        CandidatesIn(column, bottom) ==
            UNION {Bottommost(SzovegIn(column, c), bottom) : c \in 1..3}
    IN  CandidatesIn(ColumnsBy(detect_column_boundaries(shapes, image_width)),
                     <<>> \o [k \in 1..Len(shapes) |->
                                 get_element_bounds(shapes[k])[4]])

correct_szoveg_coordinates_unguarded(shapes, image_width) ==
    LET Stretched(shape, b, target_bottom) ==
            SetKey(shape, "points", <<<<b[1], b[2]>>, <<b[3], target_bottom>>>>)
        Corrected(candidates, target_bottom) ==
            <<>> \o [k \in 1..Len(shapes) |->
                        IF k \in candidates
                        THEN Stretched(shapes[k], get_element_bounds(shapes[k]),
                                       target_bottom)
                        ELSE shapes[k]]
        Apply(candidates) ==
            IF candidates = {} THEN shapes
            ELSE Corrected(candidates,
                           Max({get_element_bounds(shapes[k])[4] : k \in candidates}))
    IN  Apply(BottommostCandidates(shapes, image_width))

correct_szoveg_coordinates_every_szoveg(shapes, image_width) ==
    LET Stretched(shape, b, target_bottom) ==
            SetKey(shape, "points", <<<<b[1], b[2]>>, <<b[3], target_bottom>>>>)
        Corrected(candidates, target_bottom) ==
            <<>> \o [k \in 1..Len(shapes) |->
                        IF shapes[k].label = "szoveg" /\ Len(shapes[k].points) >= 2
                        THEN Stretched(shapes[k], get_element_bounds(shapes[k]),
                                       target_bottom)
                        ELSE shapes[k]]
        Apply(candidates) ==
            IF candidates = {} THEN shapes
            ELSE Corrected(candidates,
                           Max({get_element_bounds(shapes[k])[4] : k \in candidates}))
    IN  Apply(BottommostCandidates(shapes, image_width))

correct_szoveg_coordinates_to_min(shapes, image_width) ==
    LET Stretched(shape, b, target_bottom) ==
            SetKey(shape, "points", <<<<b[1], b[2]>>, <<b[3], target_bottom>>>>)
        Corrected(candidates, target_bottom) ==
            <<>> \o [k \in 1..Len(shapes) |->
                        IF k \in candidates /\ Len(shapes[k].points) >= 2
                        THEN Stretched(shapes[k], get_element_bounds(shapes[k]),
                                       target_bottom)
                        ELSE shapes[k]]
        Apply(candidates) ==
            IF candidates = {} THEN shapes
            ELSE Corrected(candidates,
                           Min({get_element_bounds(shapes[k])[4] : k \in candidates}))
    IN  Apply(BottommostCandidates(shapes, image_width))

correct_szoveg_coordinates(shapes, image_width) ==
    LET Stretched(shape, b, target_bottom) ==
            SetKey(shape, "points", <<<<b[1], b[2]>>, <<b[3], target_bottom>>>>)
        Corrected(candidates, target_bottom) ==
            <<>> \o [k \in 1..Len(shapes) |->
                        IF k \in candidates /\ Len(shapes[k].points) >= 2
                        THEN Stretched(shapes[k], get_element_bounds(shapes[k]),
                                       target_bottom)
                        ELSE shapes[k]]
        Apply(candidates) ==
            IF candidates = {} THEN shapes
            ELSE Corrected(candidates,
                           Max({get_element_bounds(shapes[k])[4] : k \in candidates}))
    IN  Apply(BottommostCandidates(shapes, image_width))

\* the shapes of the record process_page_layout returns
process_page_layout(page) ==
    LET ColumnsOf(shapes, image_width, bd) ==
            <<>> \o [k \in 1..Len(shapes) |->
                        ColumnFor(shapes[k], image_width, bd[1], bd[2])]
        Numbered(shapes, columns) ==
            <<>> \o [k \in 1..Len(shapes) |->
                        IF columns[k] = 0
                        THEN SetKey(shapes[k], "column_number", 0)
                        ELSE SetKey(SetKey(shapes[k], "column_number", columns[k]),
                                    "row_number", RowFor(shapes, columns, k))]
        Processed(shapes, image_width) ==
            correct_szoveg_coordinates(
                Numbered(shapes,
                         ColumnsOf(shapes, image_width,
                                   detect_column_boundaries(shapes, image_width))),
                image_width)
    IN  IF "shapes" \notin DOMAIN page \/ Len(page.shapes) = 0 THEN page
        ELSE SetKey(page, "shapes", Processed(page.shapes, ImageWidth(page)))

----------------------------------------------------------------------------
(* The corpus of enriched pages the span collector reads.  A page is the   *)
(* record of one JSON file; its shapes carry the column_number and         *)
(* row_number the layout processor wrote: banded shapes have rows 1..n     *)
(* within their band, full-width titles have column_number 0 and a         *)
(* row_number only when the input record already carried one.              *)

\* what a shape is before its row is known: label, band, text, row or not.
\* Body texts and markers stand in either of two bands.
Templates ==
    [label : {"szoveg"}, column_number : {1, 2},
     text : {BodyText}, has_row : {TRUE}]
    \cup [label : {"hasabkozi_cim"}, column_number : {1, 2},
          text : {MarkerText}, has_row : {TRUE}]
    \cup [label : {"hasabkozi_cim"}, column_number : {1},
          text : {OtherText, NoText}, has_row : {TRUE}]
    \cup [label : {"szeles_cim"}, column_number : {0},
          text : {TitleText}, has_row : BOOLEAN]

\* The shapes listing the templates t in this discovery order; within a band
\* the rows run against the discovery order, so that no band is listed sorted.
MkShapes(t) ==
    LET n == Len(t)
        row(i) == Cardinality({j \in i..n :
                      t[j].column_number = t[i].column_number /\ t[j].has_row})
        base(i) == [label |-> t[i].label, column_number |-> t[i].column_number]
        rowed(i) == IF t[i].has_row
                    THEN base(i) @@ [row_number |-> row(i)] ELSE base(i)
    IN  [i \in 1..n |-> IF t[i].text # NoText
                        THEN rowed(i) @@ [ocr_text |-> t[i].text] ELSE rowed(i)]

\* The corpus of n pages whose page p lists the templates t[i] with
\* page_of[i] = p.
MkCorpus(n, t, page_of) ==
    [p \in 1..n |->
        LET on_page == SelectSeq([i \in 1..Len(t) |-> i],
                                 LAMBDA i : page_of[i] = p)
        IN  [shapes |-> MkShapes([k \in 1..Len(on_page) |-> t[on_page[k]]])]]

----------------------------------------------------------------------------
(* raw_strike_description_collector.py                                     *)

\* the indices of the shapes find_toke_munka_subtitle accepts
TokeMunkaHits(shapes) ==
    {i \in 1..Len(shapes) :
        /\ shapes[i].label = "hasabkozi_cim"
        /\ extract_text_from_shape(shapes[i]) # NoText
        /\ contains_toke_munka(extract_text_from_shape(shapes[i]))}

\* the first of them, where there is one
find_toke_munka_subtitle(shapes) ==
    LET First(hits) == CHOOSE i \in hits : \A j \in hits : i <= j
    IN  shapes[First(TokeMunkaHits(shapes))]

\* key=lambda s: (s.get("column_number", 999), s.get("row_number", 999))
ColRowLess(a, b) ==
    \/ a.column_number < b.column_number
    \/ a.column_number = b.column_number /\ a.row_number < b.row_number

\* the shapes of the page a pass looks at, in reading order
ElementsOf(shapes, labels) ==
    LET elements == SelectSeq(shapes, LAMBDA s : /\ s.label \in labels
                                                 /\ "column_number" \in DOMAIN s
                                                 /\ "row_number" \in DOMAIN s)
    IN  SortBy(elements,
               [a, b \in 1..Len(elements) |-> ColRowLess(elements[a], elements[b])])

\* "Skip if we're still before our starting position"
BeforeStart(element, idx, from_index, from_column, from_row) ==
    /\ idx = from_index
    /\ \/ element.column_number < from_column
       \/ element.column_number = from_column /\ element.row_number <= from_row

\* "Check if this is a stopping point"
IsStoppingPoint(element) ==
    \/ element.label = "szeles_cim"
    \/ /\ element.label = "hasabkozi_cim"
       /\ extract_text_from_shape(element) # NoText
       /\ ~contains_toke_munka(extract_text_from_shape(element))

\* get_next_stopping_point, the body of its loop for one page that loaded:
\* the position the function returns from this page, or NoStop
StopOnPage(idx, current_file_index, current_column, current_row, page) ==
    LET elements == ElementsOf(page.shapes,
                               {"hasabkozi_cim", "szeles_cim", "szoveg"})
        hits == {k \in 1..Len(elements) :
                    /\ ~BeforeStart(elements[k], idx, current_file_index,
                                    current_column, current_row)
                    /\ IsStoppingPoint(elements[k])}
        first == CHOOSE k \in hits : \A j \in hits : k <= j
    IN  IF hits = {} THEN NoStop
        ELSE <<idx, elements[first].column_number, elements[first].row_number>>

\* f"[SUBTITLE] {text}" and the plain text
Fragment(element) ==
    [tag |-> IF element.label = "hasabkozi_cim" THEN "SUBTITLE" ELSE "",
     text |-> extract_text_from_shape(element)]

\* collect_column_content, the body of its loop for one page that loaded:
\* the elements whose text goes to page_content, in that order
PageElements(idx, from_index, from_column, from_row, stop_point, page) ==
    LET elements == ElementsOf(page.shapes, {"hasabkozi_cim", "szoveg"})
        skipped(k) == BeforeStart(elements[k], idx, from_index,
                                  from_column, from_row)
        breaks == {k \in 1..Len(elements) :
                      /\ ~skipped(k)
                      /\ stop_point[1] # None
                      /\ idx = stop_point[1]
                      /\ elements[k].column_number = stop_point[2]
                      /\ elements[k].row_number = stop_point[3]}
        last == IF breaks = {} THEN Len(elements)
                ELSE (CHOOSE k \in breaks : \A j \in breaks : k <= j) - 1
        taken == SelectSeq([k \in 1..last |-> k],
                           LAMBDA k : /\ ~skipped(k)
                                      /\ extract_text_from_shape(elements[k])
                                             # NoText)
    IN  [k \in 1..Len(taken) |-> elements[taken[k]]]

CollectionEndsWithoutNoneTest(idx, stop_point) == idx >= stop_point[1]

\* "Stop if we've reached the stopping point", after a page that loaded
CollectionEnds(idx, stop_point) == stop_point[1] # None /\ idx >= stop_point[1]

----------------------------------------------------------------------------
(* collect_column_content as a state machine, one step per page of a pass. *)
(* Loading a page either succeeds or raises (`ok`); the except clause of   *)
(* each loop goes on with the next page.                                   *)

MarkerPages(corpus) ==
    {i \in 1..Len(corpus) : TokeMunkaHits(corpus[i].shapes) # {}}

StaleContentParts == content_parts

\* content_parts = []
FreshContentParts == <<>>

\* process_files calls collect_column_content(i, toke_munka_shape, all_pairs)
Enter(i) ==
    /\ start_file_index' = i
    /\ start_shape' = find_toke_munka_subtitle(all_pairs[i].shapes)
    /\ content_parts' = FreshContentParts
    /\ collected' = <<>>
    /\ stop' = NoStop
    /\ file_idx' = i
    /\ failedS' = FALSE
    /\ failedC' = FALSE
    /\ pc' = "search"

\* no page is in the layout processor
LayoutIdle ==
    /\ data = [shapes |-> <<>>]
    /\ loaded = [shapes |-> <<>>]
    /\ boundaries = <<0, 0>>
    /\ lpc = "idle"

\* no corpus-level run is under way
BatchIdle ==
    /\ page_text = <<>>
    /\ pairs = <<>>
    /\ loop_i = 0
    /\ found_columns = 0
    /\ successful = 0
    /\ failed = 0
    /\ outputs = <<>>
    /\ raised = {}
    /\ bpc = "idle"

\* the corpora of at most MaxPages pages and MaxShapes shapes
InitCorpus ==
    \E n \in 1..MaxPages, k \in 0..MaxShapes :
        \E page_of \in [1..k -> 1..n] :
            /\ \A i \in 1..k : \A j \in i..k : page_of[i] <= page_of[j]
            /\ \E t \in [1..k -> Templates] : all_pairs = MkCorpus(n, t, page_of)

Init ==
    /\ InitCorpus
    /\ start_file_index \in MarkerPages(all_pairs)
    /\ start_shape = find_toke_munka_subtitle(all_pairs[start_file_index].shapes)
    /\ content_parts = <<>>
    /\ collected = <<>>
    /\ stop = NoStop
    /\ file_idx = start_file_index
    /\ failedS = FALSE
    /\ failedC = FALSE
    /\ pc = "search"
    /\ runs = <<>>
    /\ LayoutIdle
    /\ BatchIdle

\* get_next_stopping_point: the step after a page of the loop
\* `for file_idx in range(current_file_index, len(all_pairs))` on which
\* `found` was found, and the return after the last page
SearchGoesOn(found) ==
    IF found[1] # None \/ file_idx = Len(all_pairs)
    THEN /\ stop' = found
         /\ pc' = "collect"
         /\ file_idx' = start_file_index
    ELSE /\ file_idx' = file_idx + 1
         /\ UNCHANGED <<stop, pc>>

\* an iteration whose page loads
SearchLoaded ==
    /\ pc = "search"
    /\ SearchGoesOn(StopOnPage(file_idx, start_file_index,
                               start_shape.column_number,
                               start_shape.row_number, all_pairs[file_idx]))
    /\ UNCHANGED <<all_pairs, start_file_index, start_shape, content_parts,
                   collected, failedS, failedC, runs, layoutVars, batchVars>>

SearchRaisedUncaught ==
    /\ pc = "search"
    /\ pc' = "error"
    /\ failedS' = TRUE
    /\ UNCHANGED <<all_pairs, start_file_index, start_shape, content_parts,
                   collected, failedC, runs, layoutVars, batchVars, stop,
                   file_idx>>

\* an iteration whose page raises: `except Exception ... continue`
SearchRaised ==
    /\ pc = "search"
    /\ SearchGoesOn(NoStop)
    /\ failedS' = TRUE
    /\ UNCHANGED <<all_pairs, start_file_index, start_shape, content_parts,
                   collected, failedC, runs, layoutVars, batchVars>>

SearchPage(ok) == IF ok THEN SearchLoaded ELSE SearchRaised

\* collect_column_content: the step after a page of the loop
\* `for file_idx in range(start_file_index, len(all_pairs))` that added
\* `taken`, and the return after the loop; `ends` is the break of the loop
CollectGoesOn(taken, ends) ==
    LET parts == content_parts \o [k \in 1..Len(taken) |-> Fragment(taken[k])]
    IN  /\ content_parts' = parts
        /\ collected' = collected \o
               [k \in 1..Len(taken) |->
                   <<file_idx, taken[k].column_number, taken[k].row_number>>]
        /\ IF ends \/ file_idx = Len(all_pairs)
           THEN /\ pc' = "done"
                /\ runs' = Append(runs, [start |-> start_file_index,
                                         stop |-> stop, content |-> parts])
                /\ UNCHANGED file_idx
           ELSE /\ file_idx' = file_idx + 1
                /\ UNCHANGED <<pc, runs>>

\* an iteration whose page loads
CollectLoaded ==
    /\ pc = "collect"
    /\ CollectGoesOn(PageElements(file_idx, start_file_index,
                                  start_shape.column_number,
                                  start_shape.row_number, stop,
                                  all_pairs[file_idx]),
                     CollectionEnds(file_idx, stop))
    /\ UNCHANGED <<all_pairs, start_file_index, start_shape, stop, failedS,
                   failedC, layoutVars, batchVars>>

\* an iteration whose page raises: `except Exception ... continue`
CollectRaised ==
    /\ pc = "collect"
    /\ CollectGoesOn(<<>>, FALSE)
    /\ failedC' = TRUE
    /\ UNCHANGED <<all_pairs, start_file_index, start_shape, stop, failedS,
                   layoutVars, batchVars>>

CollectPage(ok) == IF ok THEN CollectLoaded ELSE CollectRaised

\* the collector is called again, for the marker of any page
Call ==
    /\ pc = "done"
    /\ Len(runs) < MaxRuns
    /\ \E i \in MarkerPages(all_pairs) : Enter(i)
    /\ UNCHANGED <<all_pairs, runs, layoutVars, batchVars>>

Next == (\E ok \in BOOLEAN : SearchPage(ok)) \/ (\E ok \in BOOLEAN : CollectPage(ok))

Spec == Init /\ [][Next]_vars

\* every load succeeds; the collector may be called again
NextRerun == SearchPage(TRUE) \/ CollectPage(TRUE) \/ Call

SpecRerun == Init /\ [][NextRerun]_vars

\* a pass goes on with its next page
SpecFair == Spec /\ WF_vars(Next)

----------------------------------------------------------------------------
(* The layout processor on one page record.                                *)

\* no call of the span collector is under way
CollectorIdle ==
    /\ all_pairs = <<>>
    /\ start_file_index = None
    /\ start_shape = [label |-> "hasabkozi_cim"]
    /\ pc = "idle"
    /\ file_idx = None
    /\ stop = NoStop
    /\ content_parts = <<>>
    /\ collected = <<>>
    /\ failedS = FALSE
    /\ failedC = FALSE
    /\ runs = <<>>

\* horizontal extents <<x1, x2>> on a page 12 wide: the three thirds, a box
\* inside the first third, and a box across the first boundary
NarrowExtents == {<<0, 4>>, <<1, 4>>, <<4, 8>>, <<8, 12>>}

BandExtents == {<<0, 4>>, <<4, 8>>, <<8, 12>>, <<2, 6>>}

\* a two-point polygon
Box(x, y) == <<<<x[1], y[1]>>, <<x[2], y[2]>>>>

\* pages for detect_column_boundaries: candidates and titles of any extent,
\* on pages 10 or 12 wide or of no recorded width
BoundaryShapes ==
    {[label |-> l, points |-> Box(x, <<0, 100>>)] :
        l \in {"szoveg", "hasabkozi_cim", "szeles_cim"}, x \in NarrowExtents}

InitBoundaries ==
    /\ \E n \in 0..MaxCandidates :
         \E sh \in [1..n -> BoundaryShapes] :
            \/ \E w \in {10, 12} : data = [shapes |-> sh, imageWidth |-> w]
            \/ data = [shapes |-> sh]
    /\ loaded = data
    /\ boundaries = <<0, 0>>
    /\ lpc = "loaded"
    /\ CollectorIdle
    /\ BatchIdle

\* boundary1, boundary2 = detect_column_boundaries(shapes, image_width)
DetectColumnBoundaries ==
    /\ lpc = "loaded"
    /\ boundaries' = detect_column_boundaries(data.shapes, ImageWidth(data))
    /\ lpc' = "detected"
    /\ UNCHANGED <<data, loaded, collectorVars, batchVars>>

NextBoundaries == DetectColumnBoundaries

SpecBoundaries == InitBoundaries /\ [][NextBoundaries]_vars

\* pages of candidates only, with centers at 2, 4, 6 and 10 of a page 12
\* wide: gaps of the same size next to one another, in any listing order
TieShapes ==
    {[label |-> l, points |-> Box(x, <<0, 100>>)] :
        l \in {"szoveg", "hasabkozi_cim"}, x \in BandExtents}

InitTies ==
    /\ \E n \in 0..MaxCandidates :
         \E sh \in [1..n -> TieShapes] :
            data = [shapes |-> sh, imageWidth |-> 12]
    /\ loaded = data
    /\ boundaries = <<0, 0>>
    /\ lpc = "loaded"
    /\ CollectorIdle
    /\ BatchIdle

SpecTies == InitTies /\ [][NextBoundaries]_vars

\* pages for process_page_layout: every label in every band position, the
\* k-th shape listed lying in the k-th horizontal strip of the page
LayoutLabels ==
    {"szoveg", "hasabkozi_cim", "szeles_cim", "oldalfejlec", "hirdetes", "kep"}

\* extents of advertisements wider than, and exactly, half the page
WideExtents == {<<0, 12>>, <<3, 9>>}

\* the column_number and row_number a record read from its file may
\* already carry
StaleKeys == [column_number |-> 2, row_number |-> 7]

\* what a shape of the page is: label, horizontal extent, and whether the
\* record already carries a column_number and a row_number
LayoutKinds ==
    [label : LayoutLabels, x : BandExtents, stale : {FALSE}]
    \cup [label : {"hirdetes"}, x : WideExtents, stale : {FALSE}]
    \cup {[label |-> "szoveg", x |-> <<0, 4>>, stale |-> TRUE],
          [label |-> "szeles_cim", x |-> <<0, 4>>, stale |-> TRUE],
          [label |-> "hirdetes", x |-> <<0, 12>>, stale |-> TRUE]}

\* the k-th shape of the page, of kind s
LayoutShape(s, k) ==
    IF s.stale
    THEN [label |-> s.label,
          points |-> Box(s.x, <<200 * k, 200 * k + 100>>)] @@ StaleKeys
    ELSE [label |-> s.label, points |-> Box(s.x, <<200 * k, 200 * k + 100>>)]

InitLayout ==
    /\ \E n \in 0..MaxLayoutShapes :
         \E s \in [1..n -> LayoutKinds] :
            data = [shapes |-> [k \in 1..n |-> LayoutShape(s[k], k)],
                    imageWidth |-> 12]
    /\ loaded = data
    /\ boundaries = <<0, 0>>
    /\ lpc = "loaded"
    /\ CollectorIdle
    /\ BatchIdle

\* processed_data = process_page_layout(data)
ProcessPageLayout ==
    /\ lpc = "loaded"
    /\ data' = process_page_layout(data)
    /\ boundaries' = detect_column_boundaries(data.shapes, ImageWidth(data))
    /\ lpc' = "processed"
    /\ UNCHANGED <<loaded, collectorVars, batchVars>>

NextLayout == ProcessPageLayout

SpecLayout == InitLayout /\ [][NextLayout]_vars

\* pages whose shapes lie at various heights: tops that tie, shapes that
\* have another shape below their bottom edge, shapes that have none, and a
\* shape whose top is 150 under the bottom 100 and 50 over the bottom 300
YExtents == {<<0, 100>>, <<0, 300>>, <<200, 300>>, <<250, 300>>, <<400, 500>>}

\* body texts and subtitles in the left and the right third, titles across
\* the page, a body text whose record has no points, and a body text and a
\* subtitle of one point
GeometryShapes ==
    {[label |-> l, points |-> Box(x, y)] :
        l \in {"szoveg", "hasabkozi_cim"}, x \in {<<0, 4>>, <<8, 12>>},
        y \in YExtents}
    \cup {[label |-> "szeles_cim", points |-> Box(<<0, 12>>, y)] : y \in YExtents}
    \cup {[label |-> "szoveg", points |-> <<>>]}
    \cup {[label |-> l, points |-> <<<<8, 400>>>>] :
             l \in {"szoveg", "hasabkozi_cim"}}

InitGeometry ==
    /\ \E n \in 0..MaxGeometryShapes :
         \E sh \in [1..n -> GeometryShapes] :
            data = [shapes |-> sh, imageWidth |-> 12]
    /\ loaded = data
    /\ boundaries = <<0, 0>>
    /\ lpc = "loaded"
    /\ CollectorIdle
    /\ BatchIdle

SpecGeometry == InitGeometry /\ [][NextLayout]_vars

\* the layout processor is run once more, over the record it has written:
\* data = process_page_layout(data) on the record loaded from that file
ProcessPageLayoutAgain ==
    /\ lpc = "processed"
    /\ loaded' = data
    /\ data' = process_page_layout(data)
    /\ boundaries' = detect_column_boundaries(data.shapes, ImageWidth(data))
    /\ lpc' = "reprocessed"
    /\ UNCHANGED <<collectorVars, batchVars>>

NextTwice == ProcessPageLayout \/ ProcessPageLayoutAgain

SpecTwice == (InitGeometry \/ InitLayout) /\ [][NextTwice]_vars

----------------------------------------------------------------------------
(* extract_newspaper_text.py on one page record.  page_text holds the      *)
(* parts that "\n\n".join(text_parts) joins, <<>> for the return of "".     *)

\* f"[TITLE] {text}"
TitlePart(text) == [tag |-> "[TITLE] ", text |-> text, column |-> None]

\* f"[SUBTITLE] {text}" and the plain text of a body text
ColumnElementPart(label, text) ==
    [tag |-> IF label = "hasabkozi_cim" THEN "[SUBTITLE] " ELSE "",
     text |-> text, column |-> None]

\* f"[COLUMN {column_num}]" before the first column element and
\* f"\n[COLUMN {column_num}]\n" where the column changes
ColumnPart(first, column_num) ==
    [tag |-> IF first THEN "[COLUMN ]" ELSE "\n[COLUMN ]\n",
     text |-> NoText, column |-> column_num]

\* min(p[1] for p in s.get("points", [[0, 0]]))
TitleTop(shape) ==
    IF "points" \in DOMAIN shape THEN Min(YCoords(shape)) ELSE 0

\* min() of an empty sequence raises ValueError
TitleTopRaises(shape) == "points" \in DOMAIN shape /\ Len(shape.points) = 0

\* process_json_file of extract_newspaper_text.py on the record read from
\* the file; whatever is raised is caught and "" is returned
process_json_file(page) ==
    LET Shapes == IF "shapes" \in DOMAIN page THEN page.shapes ELSE <<>>
        szeles_cim_elements ==
            SelectSeq(Shapes, LAMBDA s : s.label = "szeles_cim")
        column_elements ==
            SelectSeq(Shapes, LAMBDA s :
                /\ s.label \in {"szoveg", "hasabkozi_cim"}
                /\ "column_number" \in DOMAIN s
                /\ "row_number" \in DOMAIN s)
        ByTop(e) ==
            SortBy(e, [a, b \in 1..Len(e) |-> TitleTop(e[a]) < TitleTop(e[b])])
        ByColumnRow(e) ==
            SortBy(e, [a, b \in 1..Len(e) |-> ColRowLess(e[a], e[b])])
        Texts(e) ==
            <<>> \o [k \in 1..Len(e) |->
                        extract_newspaper_text_extract_text_from_shape(e[k])]
        TitleParts(texts) ==
            <<>> \o [k \in 1..Len(SelectSeq(texts, LAMBDA x : x # NoText)) |->
                        TitlePart(SelectSeq(texts, LAMBDA x : x # NoText)[k])]
        Separator(e, k) ==
            IF k = 1 THEN <<ColumnPart(TRUE, e[k].column_number)>>
            ELSE IF e[k].column_number # e[k - 1].column_number
            THEN <<ColumnPart(FALSE, e[k].column_number)>>
            ELSE <<>>
        Content(e, texts, k) ==
            IF texts[k] # NoText
            THEN <<ColumnElementPart(e[k].label, texts[k])>> ELSE <<>>
        ColumnParts(e, texts) ==
            LET upto[k \in 0..Len(e)] ==
                    IF k = 0 THEN <<>>
                    ELSE upto[k - 1] \o Separator(e, k) \o Content(e, texts, k)
            IN  upto[Len(e)]
        Titled(e) == TitleParts(Texts(e))
        Columned(e) == ColumnParts(e, Texts(e))
    IN  IF Shapes = <<>> THEN <<>>
        ELSE IF \E k \in 1..Len(szeles_cim_elements) :
                   TitleTopRaises(szeles_cim_elements[k])
        THEN <<>>
        ELSE IF \E k \in 1..Len(Shapes) :
                   /\ \/ Shapes[k].label = "szeles_cim"
                      \/ Shapes[k] \in {column_elements[j] :
                                            j \in 1..Len(column_elements)}
                   /\ extract_newspaper_text_extract_text_from_shape(Shapes[k])
                          = Raised
        THEN <<>>
        ELSE Titled(ByTop(szeles_cim_elements))
                 \o Columned(ByColumnRow(column_elements))

\* the text a column element carries, by where it stands
StreamText(column, row) ==
    CASE column = 1 /\ row = 1 -> BodyText
      [] column = 1 /\ row = 2 -> OtherText
      [] column = 2 /\ row = 1 -> MarkerText
      [] OTHER -> TitleText

\* shapes of an enriched page: wide titles at two heights, one of them
\* without text and one without points; body texts and subtitles in rows 1
\* and 2 of bands 1 and 2; a body text without text, one whose text is
\* null, one without a row_number, and a picture
StreamShapes ==
    {[label |-> "szeles_cim", column_number |-> 0,
      points |-> Box(<<0, 12>>, <<0, 100>>), ocr_text |-> TitleText],
     [label |-> "szeles_cim", column_number |-> 0,
      points |-> Box(<<0, 12>>, <<200, 300>>), ocr_text |-> OtherText],
     [label |-> "szeles_cim", column_number |-> 0,
      points |-> Box(<<0, 12>>, <<0, 100>>)],
     [label |-> "szeles_cim", column_number |-> 0,
      points |-> <<>>, ocr_text |-> TitleText]}
    \cup {[label |-> l, column_number |-> c, row_number |-> r,
           ocr_text |-> StreamText(c, r)] :
              l \in {"szoveg", "hasabkozi_cim"}, c \in {1, 2}, r \in {1, 2}}
    \cup {[label |-> "szoveg", column_number |-> 1, row_number |-> 1],
          [label |-> "szoveg", column_number |-> 1, ocr_text |-> BodyText],
          [label |-> "szoveg", column_number |-> 2, row_number |-> 2,
           text |-> JsonNull],
          [label |-> "kep", column_number |-> 1, row_number |-> 1,
           ocr_text |-> BodyText]}

\* no two shapes of a band carry the same row_number
RowsDistinct(shapes) ==
    \A a, b \in 1..Len(shapes) :
        (/\ a # b
         /\ "row_number" \in DOMAIN shapes[a]
         /\ "row_number" \in DOMAIN shapes[b]
         /\ shapes[a].column_number = shapes[b].column_number)
            => shapes[a].row_number # shapes[b].row_number

InitStream ==
    /\ \E n \in 0..MaxStreamShapes :
         \E sh \in [1..n -> StreamShapes] :
            /\ RowsDistinct(sh)
            /\ data = [shapes |-> sh]
    /\ loaded = data
    /\ boundaries = <<0, 0>>
    /\ lpc = "loaded"
    /\ CollectorIdle
    /\ BatchIdle

\* page_text = process_json_file(json_path), of a file that can be read
\* (ok) or not
ComposePage(ok) ==
    /\ lpc = "loaded"
    /\ page_text' = IF ok THEN process_json_file(data) ELSE <<>>
    /\ lpc' = IF ok THEN "composed" ELSE "unreadable"
    /\ UNCHANGED <<data, boundaries, loaded, collectorVars, pairs, loop_i,
                   found_columns, successful, failed, outputs, raised, bpc>>

NextStream == \E ok \in BOOLEAN : ComposePage(ok)

SpecStream == InitStream /\ [][NextStream]_vars

\* the five fields a text is looked for in, and the values one may hold: a
\* text of its own, a padded text, and values without text
TextFields == {"ocr_text", "text", "description", "content", "value"}

FieldText(field) ==
    CASE field = "ocr_text" -> MarkerText
      [] field = "text" -> OtherText
      [] field = "description" -> TitleText
      [] field = "content" -> ReversedText
      [] field = "value" -> TokeOnlyText

FieldValues(field) ==
    {FieldText(field), PaddedText, BlankText, NoText, JsonNull, JsonZero,
     JsonSeven}

\* a page with one shape, in which any of the fields are present
InitExtract ==
    /\ \E present \in SUBSET TextFields :
         \E fields \in [present -> UNION {FieldValues(f) : f \in TextFields}] :
            /\ \A f \in present : fields[f] \in FieldValues(f)
            /\ data = [shapes |-> <<fields @@ [label |-> "szoveg"]>>]
    /\ loaded = data
    /\ boundaries = <<0, 0>>
    /\ lpc = "loaded"
    /\ CollectorIdle
    /\ BatchIdle

\* what a call of either copy ends in: the text returned (NoText for None),
\* or an exception
Outcome(result) ==
    IF result = Raised THEN [tag |-> "raised", text |-> NoText]
    ELSE [tag |-> "returned", text |-> result]

\* text = extract_text_from_shape(shape), called in extract_newspaper_text.py
\* (page_text) and in raw_strike_description_collector.py (content_parts)
ExtractText ==
    /\ lpc = "loaded"
    /\ page_text' =
           <<Outcome(extract_newspaper_text_extract_text_from_shape(
                         data.shapes[1]))>>
    /\ content_parts' = <<Outcome(extract_text_from_shape(data.shapes[1]))>>
    /\ lpc' = "extracted"
    /\ UNCHANGED <<data, boundaries, loaded, all_pairs, start_file_index,
                   start_shape, pc, file_idx, stop, collected, failedS,
                   failedC, runs, pairs, loop_i, found_columns, successful,
                   failed, outputs, raised, bpc>>

NextExtract == ExtractText

SpecExtract == InitExtract /\ [][NextExtract]_vars

----------------------------------------------------------------------------
(* natural_sort_key and the sort of the pairs found.  An identifier is the *)
(* sequence of its characters.                                             *)

Digits == {"0", "1", "2"}

Letters == {"a", "K"}

\* ord(c)
CodePoint(c) ==
    CASE c = "0" -> 48 [] c = "1" -> 49 [] c = "2" -> 50
      [] c = "K" -> 75 [] c = "a" -> 97 [] c = "k" -> 107

\* re.split('([0-9]+)', text): the runs without a digit and the runs of
\* digits in turn, from a run without a digit (which may be empty) to one
RECURSIVE SplitFrom(_, _, _)
SplitFrom(chars, i, digits) ==
    LET Last(ends) == IF ends = {} THEN i - 1 ELSE Max(ends)
        Rest(j) ==
            IF j = Len(chars) THEN (IF digits THEN <<<<>>>> ELSE <<>>)
            ELSE SplitFrom(chars, j + 1, ~digits)
        From(j) == <<SubSeq(chars, i, j)>> \o Rest(j)
    IN  From(Last({j \in i..Len(chars) :
                     \A k \in i..j : (chars[k] \in Digits) = digits}))

\* int(text_part)
IntOf(part) ==
    LET value[n \in 0..Len(part)] ==
            IF n = 0 THEN 0 ELSE 10 * value[n - 1] + (CodePoint(part[n]) - 48)
    IN  value[Len(part)]

\* [convert(c) for c in re.split('([0-9]+)', text)]: the runs of digits,
\* which stand at the even places, as numbers, the others lowered
natural_sort_key(text) ==
    LET Converted(parts) ==
            <<>> \o [n \in 1..Len(parts) |->
                        IF n % 2 = 0 THEN IntOf(parts[n])
                        ELSE <<>> \o [k \in 1..Len(parts[n]) |->
                                         Lower(parts[n][k])]]
    IN  Converted(SplitFrom(text, 1, FALSE))

\* s < t on strings: by code point at the first difference, a proper
\* prefix first
StrLess(s, t) ==
    \E n \in 1..Len(t) :
        /\ \A k \in 1..n - 1 : k <= Len(s) /\ s[k] = t[k]
        /\ \/ n = Len(s) + 1
           \/ n <= Len(s) /\ CodePoint(s[n]) < CodePoint(t[n])

\* a < b on two keys: lists compare by their first differing elements, a
\* proper prefix first
KeyLess(a, b) ==
    \E n \in 1..Len(b) :
        /\ \A k \in 1..n - 1 : k <= Len(a) /\ a[k] = b[k]
        /\ \/ n = Len(a) + 1
           \/ /\ n <= Len(a)
              /\ IF n % 2 = 0 THEN a[n] < b[n] ELSE StrLess(a[n], b[n])

\* the identifiers of at most MaxNameLen characters
Names == UNION {[1..n -> Digits \cup Letters] : n \in 1..MaxNameLen}

InitSort ==
    /\ \E n \in 0..MaxNames : pairs \in [1..n -> Names]
    /\ page_text = <<>>
    /\ loop_i = 0
    /\ found_columns = 0
    /\ successful = 0
    /\ failed = 0
    /\ outputs = <<>>
    /\ raised = {}
    /\ bpc = "found"
    /\ CollectorIdle
    /\ LayoutIdle

\* pairs.sort(key=lambda x: x[0].lower())
SortPairsAsText ==
    LET AsText(text) ==
            <<>> \o [k \in 1..Len(text) |-> Lower(text[k])]
    IN  /\ bpc = "found"
        /\ pairs' = SortBy(pairs, [a, b \in 1..Len(pairs) |->
                         StrLess(AsText(pairs[a]), AsText(pairs[b]))])
        /\ bpc' = "sorted"
        /\ UNCHANGED <<collectorVars, layoutVars, page_text, loop_i,
                       found_columns, successful, failed, outputs, raised>>

\* pairs.sort(key=lambda x: natural_sort_key(x[0]))
SortPairs ==
    /\ bpc = "found"
    /\ pairs' = SortBy(pairs, [a, b \in 1..Len(pairs) |->
                     KeyLess(natural_sort_key(pairs[a]),
                             natural_sort_key(pairs[b]))])
    /\ bpc' = "sorted"
    /\ UNCHANGED <<collectorVars, layoutVars, page_text, loop_i, found_columns,
                   successful, failed, outputs, raised>>

NextSort == SortPairs

SpecSort == InitSort /\ [][NextSort]_vars

----------------------------------------------------------------------------
(* The corpus-level runs: process_files of the span collector over the     *)
(* enriched corpus, and the main loop of the layout processor over the     *)
(* pairs found.  loop_i counts the pages the loop has gone through.        *)

\* the first wide title of the page that has text, or None
find_szeles_cim(shapes) ==
    LET First(hits) ==
            IF hits = {} THEN NoText
            ELSE extract_text_from_shape(shapes[Min(hits)])
    IN  First({k \in 1..Len(shapes) :
                  /\ shapes[k].label = "szeles_cim"
                  /\ extract_text_from_shape(shapes[k]) # NoText})

UnknownIssue == "Unknown Issue"

\* len("[SUBTITLE] ") and len("\n\n")
SubtitleTagLength == 11
JoinLength == 2

\* len("\n\n".join(content_parts))
JoinedLength(parts) ==
    LET total[n \in 0..Len(parts)] ==
            IF n = 0 THEN 0
            ELSE total[n - 1] + (IF n > 1 THEN JoinLength ELSE 0)
                 + (IF parts[n].tag = "SUBTITLE" THEN SubtitleTagLength ELSE 0)
                 + Len(Chars(parts[n].text))
    IN  total[Len(parts)]

\* output_data of process_files for the marker found on page i
output_data(i, toke_munka_shape, newspaper_header, column_content) ==
    [newspaper_header |-> IF newspaper_header = NoText THEN UnknownIssue
                          ELSE newspaper_header,
     column_content |-> column_content,
     source_file |-> i,
     subtitle_text |-> extract_text_from_shape(toke_munka_shape),
     content_length |-> JoinedLength(column_content),
     start_column |-> toke_munka_shape.column_number,
     start_row |-> toke_munka_shape.row_number,
     total_characters |-> JoinedLength(column_content)]

\* the loop of a corpus-level run goes on to its next page, or ends
LoopGoesOn(running, n) ==
    /\ loop_i' = loop_i + 1
    /\ bpc' = IF loop_i + 1 = n THEN "returned" ELSE running

InitFiles ==
    /\ InitCorpus
    /\ start_file_index = None
    /\ start_shape = [label |-> "hasabkozi_cim"]
    /\ pc = "idle"
    /\ file_idx = None
    /\ stop = NoStop
    /\ content_parts = <<>>
    /\ collected = <<>>
    /\ failedS = FALSE
    /\ failedC = FALSE
    /\ runs = <<>>
    /\ LayoutIdle
    /\ page_text = <<>>
    /\ pairs = <<>>
    /\ loop_i = 0
    /\ found_columns = 0
    /\ successful = 0
    /\ failed = 0
    /\ outputs = <<>>
    /\ raised = {}
    /\ bpc = "files"

\* process_files, an iteration up to the call of collect_column_content,
\* with the `except Exception` left out: what is raised ends the run
VisitFileUncaught(ok) ==
    /\ bpc = "files"
    /\ pc = "idle"
    /\ IF ~ok
       THEN /\ raised' = raised \cup {loop_i + 1}
            /\ bpc' = "returned"
            /\ UNCHANGED <<loop_i, collectorVars>>
       ELSE IF \/ Len(all_pairs[loop_i + 1].shapes) = 0
               \/ TokeMunkaHits(all_pairs[loop_i + 1].shapes) = {}
       THEN /\ LoopGoesOn("files", Len(all_pairs))
            /\ UNCHANGED <<raised, collectorVars>>
       ELSE /\ Enter(loop_i + 1)
            /\ UNCHANGED <<all_pairs, runs, loop_i, raised, bpc>>
    /\ UNCHANGED <<layoutVars, page_text, pairs, found_columns, successful,
                   failed, outputs>>

\* process_files, an iteration up to the call of collect_column_content:
\* the page does not load, has no shapes, has no marker, or has one
VisitFile(ok) ==
    /\ bpc = "files"
    /\ pc = "idle"
    /\ IF ~ok
       THEN /\ raised' = raised \cup {loop_i + 1}
            /\ LoopGoesOn("files", Len(all_pairs))
            /\ UNCHANGED collectorVars
       ELSE IF \/ Len(all_pairs[loop_i + 1].shapes) = 0
               \/ TokeMunkaHits(all_pairs[loop_i + 1].shapes) = {}
       THEN /\ LoopGoesOn("files", Len(all_pairs))
            /\ UNCHANGED <<raised, collectorVars>>
       ELSE /\ Enter(loop_i + 1)
            /\ UNCHANGED <<all_pairs, runs, loop_i, raised, bpc>>
    /\ UNCHANGED <<layoutVars, page_text, pairs, found_columns, successful,
                   failed, outputs>>

\* process_files, the iteration from the return of collect_column_content,
\* with the `if not column_content.strip(): continue` left out
FinishFileAlways(ok) ==
    /\ bpc = "files"
    /\ pc = "done"
    /\ pc' = "idle"
    /\ LoopGoesOn("files", Len(all_pairs))
    /\ IF ok
       THEN /\ outputs' = Append(outputs,
                   <<loop_i + 1,
                     output_data(loop_i + 1, start_shape,
                                 find_szeles_cim(all_pairs[loop_i + 1].shapes),
                                 content_parts)>>)
            /\ found_columns' = found_columns + 1
            /\ UNCHANGED raised
       ELSE /\ raised' = raised \cup {loop_i + 1}
            /\ UNCHANGED <<outputs, found_columns>>
    /\ UNCHANGED <<all_pairs, start_file_index, start_shape, file_idx, stop,
                   content_parts, collected, failedS, failedC, runs,
                   layoutVars, page_text, pairs, successful, failed>>

\* process_files, the iteration from the return of collect_column_content:
\* nothing was collected, or the span is saved, or saving it raises
FinishFile(ok) ==
    /\ bpc = "files"
    /\ pc = "done"
    /\ pc' = "idle"
    /\ LoopGoesOn("files", Len(all_pairs))
    /\ IF content_parts = <<>>
       THEN UNCHANGED <<outputs, found_columns, raised>>
       ELSE IF ok
       THEN /\ outputs' = Append(outputs,
                   <<loop_i + 1,
                     output_data(loop_i + 1, start_shape,
                                 find_szeles_cim(all_pairs[loop_i + 1].shapes),
                                 content_parts)>>)
            /\ found_columns' = found_columns + 1
            /\ UNCHANGED raised
       ELSE /\ raised' = raised \cup {loop_i + 1}
            /\ UNCHANGED <<outputs, found_columns>>
    /\ UNCHANGED <<all_pairs, start_file_index, start_shape, file_idx, stop,
                   content_parts, collected, failedS, failedC, runs,
                   layoutVars, page_text, pairs, successful, failed>>

\* one-page corpora for the marker test: subtitles, body texts and titles
\* of band 1 with any of the texts, or none, rows in the listing order
MarkerTexts ==
    {MarkerText, ReversedText, ApartText, TokeOnlyText, MunkaOnlyText,
     SplitText, OtherText, NoText}

MarkerShape(label, text, row) ==
    LET base == [label |-> label, column_number |-> 1, row_number |-> row]
    IN  IF text = NoText THEN base ELSE base @@ [ocr_text |-> text]

InitMarker ==
    /\ \E n \in 0..MaxMarkerShapes :
         \E l \in [1..n -> {"hasabkozi_cim", "szoveg", "szeles_cim"}] :
            \E t \in [1..n -> MarkerTexts] :
               all_pairs = <<[shapes |-> <<>> \o [k \in 1..n |->
                                 MarkerShape(l[k], t[k], k)]]>>
    /\ start_file_index = None
    /\ start_shape = [label |-> "hasabkozi_cim"]
    /\ pc = "idle"
    /\ file_idx = None
    /\ stop = NoStop
    /\ content_parts = <<>>
    /\ collected = <<>>
    /\ failedS = FALSE
    /\ failedC = FALSE
    /\ runs = <<>>
    /\ LayoutIdle
    /\ page_text = <<>>
    /\ pairs = <<>>
    /\ loop_i = 0
    /\ found_columns = 0
    /\ successful = 0
    /\ failed = 0
    /\ outputs = <<>>
    /\ raised = {}
    /\ bpc = "files"

NextMarker ==
    \/ VisitFile(TRUE)
    \/ SearchPage(TRUE)
    \/ CollectPage(TRUE)
    \/ FinishFile(TRUE)

SpecMarker == InitMarker /\ [][NextMarker]_vars

\* the page records of the pairs the layout processor finds
BatchPages ==
    {[imageWidth |-> 12],
     [shapes |-> <<>>, imageWidth |-> 12],
     [shapes |-> <<[label |-> "szoveg",
                    points |-> Box(<<0, 4>>, <<0, 100>>)]>>,
      imageWidth |-> 12]}

InitMain ==
    /\ \E n \in 1..MaxBatchPages : pairs \in [1..n -> BatchPages]
    /\ CollectorIdle
    /\ LayoutIdle
    /\ page_text = <<>>
    /\ loop_i = 0
    /\ found_columns = 0
    /\ successful = 0
    /\ failed = 0
    /\ outputs = <<>>
    /\ raised = {}
    /\ bpc = "layout"

\* what a call of process_json_file of the layout processor comes to: the
\* record is saved and the image copied, the record cannot be read, or the
\* record is saved and copying the image raises
Outcomes == {"saved", "unreadable", "uncopied"}

\* main of the layout processor, an iteration of the loop over the pairs
LayoutFile(outcome) ==
    /\ bpc = "layout"
    /\ LoopGoesOn("layout", Len(pairs))
    /\ outputs' = IF outcome = "unreadable" THEN outputs
                  ELSE Append(outputs,
                              <<loop_i + 1, process_page_layout(pairs[loop_i + 1])>>)
    /\ successful' = IF outcome = "saved" THEN successful + 1 ELSE successful
    /\ failed' = IF outcome = "saved" THEN failed ELSE failed + 1
    /\ raised' = IF outcome = "saved" THEN raised ELSE raised \cup {loop_i + 1}
    /\ UNCHANGED <<collectorVars, layoutVars, page_text, pairs, found_columns>>

InitBatch == InitFiles \/ InitMain

NextBatch ==
    \/ \E ok \in BOOLEAN : VisitFile(ok)
    \/ \E ok \in BOOLEAN : SearchPage(ok)
    \/ \E ok \in BOOLEAN : CollectPage(ok)
    \/ \E ok \in BOOLEAN : FinishFile(ok)
    \/ \E outcome \in Outcomes : LayoutFile(outcome)

SpecBatch == InitBatch /\ [][NextBatch]_vars

----------------------------------------------------------------------------
(* Both phases: the layout processor over the pages as the layout tool     *)
(* left them, then the span collector over the folder it wrote.            *)

\* shapes with text and no column_number or row_number yet: the marker and
\* a body text in band 1, a body text and another subtitle in band 3, a
\* wide title
PipelineShapes ==
    {[label |-> "hasabkozi_cim", points |-> Box(<<0, 4>>, <<0, 100>>),
      ocr_text |-> MarkerText],
     [label |-> "szoveg", points |-> Box(<<0, 4>>, <<200, 300>>),
      ocr_text |-> BodyText],
     [label |-> "szoveg", points |-> Box(<<8, 12>>, <<0, 100>>),
      ocr_text |-> BodyText],
     [label |-> "hasabkozi_cim", points |-> Box(<<8, 12>>, <<200, 300>>),
      ocr_text |-> OtherText],
     [label |-> "szeles_cim", points |-> Box(<<0, 12>>, <<0, 100>>),
      ocr_text |-> TitleText]}

InitPipeline ==
    /\ \E n \in 1..MaxPipelinePages :
         \E sizes \in [1..n -> 0..MaxPipelineShapes] :
            \E pages \in [1..n -> [1..MaxPipelineShapes -> PipelineShapes]] :
                pairs = [k \in 1..n |->
                            [shapes |-> SubSeq(pages[k], 1, sizes[k]),
                             imageWidth |-> 12]]
    /\ CollectorIdle
    /\ LayoutIdle
    /\ page_text = <<>>
    /\ loop_i = 0
    /\ found_columns = 0
    /\ successful = 0
    /\ failed = 0
    /\ outputs = <<>>
    /\ raised = {}
    /\ bpc = "layout"

\* main of the span collector on the folder the layout processor wrote:
\* the corpus is the records saved whose image was copied, in page order
LoadCorpus ==
    LET Records(saved) == <<>> \o [k \in 1..Len(saved) |-> saved[k][2]]
        Corpus == Records(SelectSeq(outputs, LAMBDA o : o[1] \notin raised))
    IN  /\ bpc = "returned"
        /\ pairs # <<>>
        /\ all_pairs = <<>>
        /\ Corpus # <<>>
        /\ all_pairs' = Corpus
        /\ loop_i' = 0
        /\ found_columns' = 0
        /\ outputs' = <<>>
        /\ raised' = {}
        /\ bpc' = "files"
        /\ UNCHANGED <<start_file_index, start_shape, pc, file_idx, stop,
                       content_parts, collected, failedS, failedC, runs,
                       layoutVars, page_text, pairs, successful, failed>>

\* every page of the second phase loads
NextPipeline ==
    \/ \E outcome \in Outcomes : LayoutFile(outcome)
    \/ LoadCorpus
    \/ VisitFile(TRUE)
    \/ SearchPage(TRUE)
    \/ CollectPage(TRUE)
    \/ FinishFile(TRUE)

SpecPipeline == InitPipeline /\ [][NextPipeline]_vars

----------------------------------------------------------------------------
(* Positions and the reading order of the corpus, as the specification     *)
(* states them; the properties below compare the collector against these.  *)

\* the shapes of the corpus that have a Position, as <<page, index>>
Positioned ==
    {<<p, i>> \in (1..Len(all_pairs)) \X (1..MaxShapes + 1) :
        /\ i <= Len(all_pairs[p].shapes)
        /\ "column_number" \in DOMAIN all_pairs[p].shapes[i]
        /\ "row_number" \in DOMAIN all_pairs[p].shapes[i]}

ShapeAt(r) == all_pairs[r[1]].shapes[r[2]]

PositionOf(r) == <<r[1], ShapeAt(r).column_number, ShapeAt(r).row_number>>

\* page ascending, then column ascending, then row ascending
PosLess(a, b) ==
    \/ a[1] < b[1]
    \/ a[1] = b[1] /\ a[2] < b[2]
    \/ a[1] = b[1] /\ a[2] = b[2] /\ a[3] < b[3]

StartPosition ==
    <<start_file_index, start_shape.column_number, start_shape.row_number>>

UniqueKeys ==
    \A r1, r2 \in Positioned : PositionOf(r1) = PositionOf(r2) => r1 = r2

\* the marker test of the specification on a subtitle
SatisfiesMarkerTest(shape) == contains_toke_munka(extract_text_from_shape(shape))

\* a stop element: a wide title, or a subtitle that fails the marker test
IsStopElement(shape) ==
    \/ shape.label = "szeles_cim"
    \/ shape.label = "hasabkozi_cim" /\ ~SatisfiesMarkerTest(shape)

StopElementsAfterStart ==
    {r \in Positioned : PosLess(StartPosition, PositionOf(r))
                        /\ IsStopElement(ShapeAt(r))}

\* the Position of the first stop element after the start, or NoStop
ExpectedStop ==
    IF StopElementsAfterStart = {} THEN NoStop
    ELSE PositionOf(CHOOSE r \in StopElementsAfterStart :
                        \A q \in StopElementsAfterStart :
                            ~PosLess(PositionOf(q), PositionOf(r)))

\* the text-bearing body texts and subtitles strictly between the start and
\* `upto` (to the end of the corpus when upto is NoStop), in reading order
SpanShapes(upto) ==
    LET inside == {r \in Positioned :
                      /\ ShapeAt(r).label \in {"szoveg", "hasabkozi_cim"}
                      /\ extract_text_from_shape(ShapeAt(r)) # NoText
                      /\ PosLess(StartPosition, PositionOf(r))
                      /\ upto[1] # None => PosLess(PositionOf(r), upto)}
        nth(k) == CHOOSE r \in inside :
                      Cardinality({q \in inside :
                          PosLess(PositionOf(q), PositionOf(r))}) = k - 1
    IN  [k \in 1..Cardinality(inside) |-> nth(k)]

ExpectedContent(upto) ==
    [k \in 1..Len(SpanShapes(upto)) |->
        [tag |-> IF ShapeAt(SpanShapes(upto)[k]).label = "hasabkozi_cim"
                 THEN "SUBTITLE" ELSE "",
         text |-> extract_text_from_shape(ShapeAt(SpanShapes(upto)[k]))]]

----------------------------------------------------------------------------
(* Properties of the span collector.                                       *)

\* C1: when every page loads and the position keys are unique, the content
\* returned is exactly the text-bearing body texts and subtitles strictly
\* after the marker and strictly before the recorded stop, in reading order,
\* subtitles tagged.
C1_ExactSpan ==
    (pc = "done" /\ ~failedS /\ ~failedC /\ UniqueKeys)
        => content_parts = ExpectedContent(stop)

\* C2: the stop the search pass returns is the Position of the first stop
\* element after the start (a wide title, or a subtitle failing the marker
\* test), when the pages it scans load.
C2_FirstStopElement ==
    (pc \in {"collect", "done"} /\ ~failedS) => stop = ExpectedStop

\* C3: whatever pages fail to load in either pass, nothing collected comes
\* from a Position at or after the recorded stop.
C3_NothingFromStopOn ==
    (pc = "done" /\ stop[1] # None)
        => \A k \in 1..Len(collected) : PosLess(collected[k], stop)

\* C4: every call ends, and ends either STOPPED, with a recorded stop the
\* collection pass has reached, or EXHAUSTED, with no stop and the collection
\* pass at the end of the corpus.
C4_EndsStoppedOrExhausted ==
    <>[](/\ pc = "done"
         /\ \/ stop = NoStop /\ file_idx = Len(all_pairs)
            \/ /\ stop[1] \in start_file_index..Len(all_pairs)
               /\ file_idx >= stop[1])

C4_Witness ==
    /\ pc = "done"
    /\ failedS /\ failedC
    /\ stop[1] # None
    /\ Len(all_pairs) > 1

\* C5: with no stop element after the start, the search pass reports no stop
\* and the collection pass returns every text-bearing body text and subtitle
\* after the start, through the last page.
C5_NoStopCollectsToEnd ==
    (pc \in {"collect", "done"} /\ StopElementsAfterStart = {})
        => /\ stop = NoStop
           /\ (pc = "done" /\ ~failedC)
                  => content_parts = ExpectedContent(NoStop)

C5_Witness ==
    /\ pc = "done"
    /\ StopElementsAfterStart = {}
    /\ ~failedC
    /\ \E k \in 1..Len(collected) : collected[k][1] > start_file_index
    /\ \E k \in 1..Len(collected) : collected[k][1] = start_file_index

\* C6: two calls for the same marker over the same corpus return the same
\* content and the same stop, whatever was collected in between.
C6_SameResultEachCall ==
    \A a, b \in 1..Len(runs) :
        runs[a].start = runs[b].start
            => runs[a].stop = runs[b].stop /\ runs[a].content = runs[b].content

C6_Witness ==
    /\ Len(runs) = 3
    /\ runs[1].start = runs[3].start
    /\ runs[2].start # runs[1].start
    /\ runs[1].content # <<>>
    /\ runs[2].content # <<>>

----------------------------------------------------------------------------
(* Properties of the layout processor.                                     *)

\* the single-column candidates of the page, by index
Candidates == {k \in 1..Len(loaded.shapes) :
                  loaded.shapes[k].label \in {"szoveg", "hasabkozi_cim"}}

\* the horizontal center of the bounding box of shape k, in twelfths
BoxCenter(k) ==
    LET xs == {loaded.shapes[k].points[i][1] :
                  i \in 1..Len(loaded.shapes[k].points)}
    IN  IF Len(loaded.shapes[k].points) < 2 THEN 0
        ELSE 6 * ((CHOOSE a \in xs : \A b \in xs : a <= b)
                  + (CHOOSE a \in xs : \A b \in xs : a >= b))

\* the candidate centers in ascending order
SortedCenters ==
    LET Ascending(c) == SortBy(c, [a, b \in 1..Len(c) |-> c[a] < c[b]])
        CentersOf(seq) == <<>> \o [i \in 1..Len(seq) |-> BoxCenter(seq[i])]
    IN  Ascending(CentersOf(SelectSeq([k \in 1..Len(loaded.shapes) |-> k],
                                      LAMBDA k : k \in Candidates)))

\* the size of gap i between the sorted centers c
GapSize(c, i) == c[i + 1] - c[i]

\* twice the midpoint of gap i
GapMid2(c, i) == c[i + 1] + c[i]

\* C7: with fewer than 3 single-column candidates the boundaries are exactly
\* image_width/3 and 2*image_width/3, whatever else is on the page.
C7_FewCandidatesEqualThirds ==
    (lpc = "detected" /\ Cardinality(Candidates) < 3)
        => /\ 3 * boundaries[1] = 12 * ImageWidth(loaded)
           /\ 3 * boundaries[2] = 12 * 2 * ImageWidth(loaded)

C7_Witness ==
    /\ lpc = "detected"
    /\ Cardinality(Candidates) = 2
    /\ Len(loaded.shapes) = 4
    /\ "imageWidth" \in DOMAIN loaded /\ loaded.imageWidth = 10
    /\ \E k \in Candidates : BoxCenter(k) > boundaries[2]

\* C8: the boundaries returned are strictly ordered, boundary1 < boundary2,
\* for every page.
C8_StrictlyOrdered ==
    lpc = "detected" => boundaries[1] < boundaries[2]

\* C9: with 3 or more candidates the boundaries are the midpoints of two
\* gaps between consecutive sorted centers that no other gap exceeds, in
\* ascending order; when two gaps exceed all the others, the boundaries are
\* the midpoints of exactly those two.
C9_TwoLargestGaps ==
    (lpc = "detected" /\ Cardinality(Candidates) >= 3)
        => /\ boundaries[1] <= boundaries[2]
           /\ \E c \in {SortedCenters} :
                 \E i, j \in 1..Len(c) - 1 :
                    /\ i # j
                    /\ 2 * boundaries[1] = GapMid2(c, i)
                    /\ 2 * boundaries[2] = GapMid2(c, j)
                    /\ \A k \in 1..Len(c) - 1 :
                           k \notin {i, j} => /\ GapSize(c, k) <= GapSize(c, i)
                                              /\ GapSize(c, k) <= GapSize(c, j)

\* centers 2, 2.5 | 6 | 10: one boundary in each gutter
C9_Witness ==
    /\ lpc = "detected"
    /\ SortedCenters = <<24, 30, 72, 120>>
    /\ boundaries = <<51, 96>>

\* C10: a body text, a subtitle and a shape of an unclassified label get
\* band 1 when their box center is left of boundary1, band 2 when it is at
\* or right of boundary1 and left of boundary2, and band 3 otherwise.
C10_BandByCenter ==
    lpc = "processed"
        => \A k \in 1..Len(data.shapes) :
              data.shapes[k].label \notin {"oldalfejlec", "szeles_cim", "hirdetes"}
                  => /\ data.shapes[k].column_number \in {1, 2, 3}
                     /\ data.shapes[k].column_number = 1
                            <=> BoxCenter(k) < boundaries[1]
                     /\ data.shapes[k].column_number = 2
                            <=> (boundaries[1] <= BoxCenter(k)
                                 /\ BoxCenter(k) < boundaries[2])
                     /\ data.shapes[k].column_number = 3
                            <=> (boundaries[1] <= BoxCenter(k)
                                 /\ boundaries[2] <= BoxCenter(k))

C10_Witness ==
    /\ lpc = "processed"
    /\ \E k \in 1..Len(data.shapes) :
          /\ data.shapes[k].label = "kep"
          /\ BoxCenter(k) = boundaries[1]
          /\ data.shapes[k].column_number = 2
    /\ \E k \in 1..Len(data.shapes) :
          /\ data.shapes[k].label = "szoveg"
          /\ data.shapes[k].column_number = 1
    /\ \E k \in 1..Len(data.shapes) :
          /\ data.shapes[k].label = "hasabkozi_cim"
          /\ data.shapes[k].column_number = 3

----------------------------------------------------------------------------
(* Column 0, rows.                                                         *)

\* the bounding box <<x1, y1, x2, y2>> of shape k of the page as loaded;
\* <<0, 0, 0, 0>> with fewer than 2 points
BoxOf(pts) ==
    LET xs == {pts[i][1] : i \in 1..Len(pts)}
        ys == {pts[i][2] : i \in 1..Len(pts)}
    IN  IF Len(pts) < 2 THEN <<0, 0, 0, 0>>
        ELSE <<CHOOSE a \in xs : \A b \in xs : a <= b,
               CHOOSE a \in ys : \A b \in ys : a <= b,
               CHOOSE a \in xs : \A b \in xs : a >= b,
               CHOOSE a \in ys : \A b \in ys : a >= b>>

LoadedBox(k) == BoxOf(loaded.shapes[k].points)

\* the bounding box of shape k of the processed page
ProcessedBox(k) == BoxOf(data.shapes[k].points)

\* the shapes written into band c
Band(c) == {k \in 1..Len(data.shapes) : data.shapes[k].column_number = c}

\* 1-based rank of shape k in its band by ascending top-y, equal tops in
\* the order of the shapes list
RankInBand(k) ==
    Cardinality({j \in Band(data.shapes[k].column_number) :
                    \/ LoadedBox(j)[2] < LoadedBox(k)[2]
                    \/ LoadedBox(j)[2] = LoadedBox(k)[2] /\ j < k}) + 1

\* width > 1.5 * (image_width / 3)
WiderThanThreshold(k) ==
    2 * (LoadedBox(k)[3] - LoadedBox(k)[1]) > ImageWidth(loaded)

\* C11: column_number is 0 exactly for page headers, wide titles and
\* advertisements wider than 1.5 * image_width / 3; an advertisement no
\* wider than that is banded by its center and is numbered with its band.
C11_ZeroColumnIff ==
    lpc = "processed"
        => \A k \in 1..Len(data.shapes) :
              /\ data.shapes[k].column_number = 0
                    <=> \/ data.shapes[k].label \in {"oldalfejlec", "szeles_cim"}
                        \/ /\ data.shapes[k].label = "hirdetes"
                           /\ WiderThanThreshold(k)
              /\ (data.shapes[k].label = "hirdetes" /\ ~WiderThanThreshold(k))
                    => /\ data.shapes[k].column_number =
                              (IF BoxCenter(k) < boundaries[1] THEN 1
                               ELSE IF BoxCenter(k) < boundaries[2] THEN 2 ELSE 3)
                       /\ "row_number" \in DOMAIN data.shapes[k]
                       /\ data.shapes[k].row_number = RankInBand(k)

\* an advertisement exactly 1.5 * image_width / 3 wide stands second in a
\* band, a wider one is in column 0
C11_Witness ==
    /\ lpc = "processed"
    /\ \E k \in 1..Len(data.shapes) :
          /\ data.shapes[k].label = "hirdetes"
          /\ 2 * (LoadedBox(k)[3] - LoadedBox(k)[1]) = ImageWidth(loaded)
          /\ data.shapes[k].column_number = 2
          /\ data.shapes[k].row_number = 2
    /\ \E k \in 1..Len(data.shapes) :
          /\ data.shapes[k].label = "hirdetes"
          /\ WiderThanThreshold(k)
          /\ data.shapes[k].column_number = 0

\* C12: within a band every shape's row_number is its 1-based rank by
\* ascending top-y, shapes of equal top-y ranked in the order of the page's
\* shapes list.
C12_RowIsRankByTop ==
    lpc = "processed"
        => \A k \in 1..Len(data.shapes) :
              data.shapes[k].column_number \in 1..3
                  => data.shapes[k].row_number = RankInBand(k)

\* tops 400, 0, 0 listed in that order in one band get rows 3, 1, 2
C12_Witness ==
    /\ lpc = "processed"
    /\ Len(data.shapes) = 3
    /\ Band(data.shapes[1].column_number) = {1, 2, 3}
    /\ <<LoadedBox(1)[2], LoadedBox(2)[2], LoadedBox(3)[2]>> = <<400, 0, 0>>
    /\ LoadedBox(2)[4] > LoadedBox(3)[4]
    /\ <<data.shapes[1].row_number, data.shapes[2].row_number,
         data.shapes[3].row_number>> = <<3, 1, 2>>

\* C13: in every band the row_numbers are exactly 1..n for its n shapes, no
\* two shapes of a band sharing one, whatever column_number and row_number
\* the loaded record carried.
C13_RowsAreOneToN ==
    lpc = "processed"
        => \A c \in 1..3 :
              /\ \A k \in Band(c) : "row_number" \in DOMAIN data.shapes[k]
              /\ {data.shapes[k].row_number : k \in Band(c)}
                     = 1..Cardinality(Band(c))
              /\ \A j, k \in Band(c) :
                     data.shapes[j].row_number = data.shapes[k].row_number
                         => j = k

\* a body text loaded with column_number 2 and row_number 7 is the second
\* of three shapes of band 1
C13_Witness ==
    /\ lpc = "processed"
    /\ Cardinality(Band(1)) = 3
    /\ \E k \in Band(1) :
          /\ "row_number" \in DOMAIN loaded.shapes[k]
          /\ loaded.shapes[k].row_number = 7
          /\ loaded.shapes[k].column_number = 2
          /\ data.shapes[k].row_number = 2

\* C14: a shape with column_number 0 carries no row_number after
\* process_page_layout, also when the loaded record carried one.
C14_NoRowInColumnZero ==
    lpc = "processed"
        => \A k \in 1..Len(data.shapes) :
              data.shapes[k].column_number = 0
                  => "row_number" \notin DOMAIN data.shapes[k]

----------------------------------------------------------------------------
(* Bottom-edge correction.                                                 *)

\* shape k is the body text of its band picked as the bottommost: none of
\* the band's body texts reaches lower, and of those reaching as low it is
\* the first of the shapes list
PickedBottommost(k) ==
    /\ loaded.shapes[k].label = "szoveg"
    /\ \A j \in Band(data.shapes[k].column_number) :
           loaded.shapes[j].label = "szoveg"
               => \/ LoadedBox(j)[4] < LoadedBox(k)[4]
                  \/ LoadedBox(j)[4] = LoadedBox(k)[4] /\ j >= k

\* another shape begins around the bottom edge of shape k and overlaps it
\* horizontally
HasShapeBelow(k) ==
    \E j \in 1..Len(loaded.shapes) :
        /\ j # k
        /\ LoadedBox(j)[2] > LoadedBox(k)[4] - Tolerance
        /\ LoadedBox(j)[2] < LoadedBox(k)[4] + 3 * Tolerance
        /\ ~(LoadedBox(j)[3] < LoadedBox(k)[1] \/ LoadedBox(j)[1] > LoadedBox(k)[3])

CorrectionCandidates ==
    {k \in 1..Len(loaded.shapes) : PickedBottommost(k) /\ ~HasShapeBelow(k)}

\* the maximum bottom-y over the candidates before correction
TargetBottom ==
    CHOOSE y \in {LoadedBox(k)[4] : k \in CorrectionCandidates} :
        \A k \in CorrectionCandidates : LoadedBox(k)[4] <= y

\* C15: after the correction every correction candidate has bottom-y equal
\* to the maximum bottom-y of the candidates before correction, and a
\* candidate that had that bottom-y keeps its bounding box.
C15_CandidatesReachTarget ==
    lpc = "processed"
        => \A k \in CorrectionCandidates :
              /\ ProcessedBox(k)[4] = TargetBottom
              /\ LoadedBox(k)[4] = TargetBottom => ProcessedBox(k) = LoadedBox(k)

\* C15 as amended: the same for every correction candidate whose polygon has
\* at least 2 points; a candidate with fewer points keeps its points.
C15_BoxedCandidatesReachTarget ==
    lpc = "processed"
        => \A k \in CorrectionCandidates :
              IF Len(loaded.shapes[k].points) >= 2
              THEN /\ ProcessedBox(k)[4] = TargetBottom
                   /\ LoadedBox(k)[4] = TargetBottom
                          => ProcessedBox(k) = LoadedBox(k)
              ELSE data.shapes[k].points = loaded.shapes[k].points

\* candidates of two bands with bottoms 100 and 500: the first is pulled
\* down to 500, the second keeps its box
C15_Witness ==
    /\ lpc = "processed"
    /\ \E j, k \in CorrectionCandidates :
          /\ LoadedBox(j)[4] = 100
          /\ LoadedBox(k)[4] = 500
          /\ ProcessedBox(j)[4] = 500
          /\ ProcessedBox(k) = LoadedBox(k)

\* the column_number the assignment gives shape k
AssignedColumn(k) ==
    IF loaded.shapes[k].label \in {"oldalfejlec", "szeles_cim"} THEN 0
    ELSE IF loaded.shapes[k].label = "hirdetes" /\ WiderThanThreshold(k) THEN 0
    ELSE IF BoxCenter(k) < boundaries[1] THEN 1
    ELSE IF BoxCenter(k) < boundaries[2] THEN 2
    ELSE 3

\* C16: the correction changes only the bottom edge of correction
\* candidates: a candidate keeps its top-y, min-x and max-x, every other
\* shape keeps its points, and every shape keeps its label and the
\* column_number and row_number the assignment gave it.
C16_OnlyCandidateBottomsChange ==
    lpc = "processed"
        => \A k \in 1..Len(data.shapes) :
              /\ ProcessedBox(k)[1] = LoadedBox(k)[1]
              /\ ProcessedBox(k)[2] = LoadedBox(k)[2]
              /\ ProcessedBox(k)[3] = LoadedBox(k)[3]
              /\ k \notin CorrectionCandidates
                    => data.shapes[k].points = loaded.shapes[k].points
              /\ data.shapes[k].label = loaded.shapes[k].label
              /\ data.shapes[k].column_number = AssignedColumn(k)
              /\ AssignedColumn(k) # 0
                    => /\ "row_number" \in DOMAIN data.shapes[k]
                       /\ data.shapes[k].row_number = RankInBand(k)

\* a candidate is pulled down to the bottom of another band's candidate,
\* while a body text that is not the bottommost of its band keeps its
\* points
C16_Witness ==
    /\ lpc = "processed"
    /\ \E c \in CorrectionCandidates :
          ProcessedBox(c)[4] > LoadedBox(c)[4]
    /\ \E k \in 1..Len(data.shapes) :
          /\ k \notin CorrectionCandidates
          /\ data.shapes[k].label = "szoveg"
          /\ LoadedBox(k)[4] < TargetBottom
          /\ data.shapes[k].points = loaded.shapes[k].points

\* the shapes of the page read, by index: wide titles by ascending top-y
WideTitlesByTop ==
    LET titles == SelectSeq(<<>> \o [k \in 1..Len(loaded.shapes) |-> k],
                            LAMBDA k : loaded.shapes[k].label = "szeles_cim")
    IN  SortBy(titles, [a, b \in 1..Len(titles) |->
                           LoadedBox(titles[a])[2] < LoadedBox(titles[b])[2]])

\* the banded body texts and column subtitles by ascending
\* (column_number, row_number)
BandedByPosition ==
    LET banded == SelectSeq(<<>> \o [k \in 1..Len(loaded.shapes) |-> k],
                            LAMBDA k :
                                /\ loaded.shapes[k].label
                                       \in {"szoveg", "hasabkozi_cim"}
                                /\ "column_number" \in DOMAIN loaded.shapes[k]
                                /\ "row_number" \in DOMAIN loaded.shapes[k])
    IN  SortBy(banded, [a, b \in 1..Len(banded) |->
                           LET s == loaded.shapes[banded[a]]
                               u == loaded.shapes[banded[b]]
                           IN  \/ s.column_number < u.column_number
                               \/ /\ s.column_number = u.column_number
                                  /\ s.row_number < u.row_number])

\* the TITLE fragments of the page
ExpectedTitles ==
    LET texted == SelectSeq(WideTitlesByTop, LAMBDA k :
                      extract_text_from_shape(loaded.shapes[k]) # NoText)
    IN  [n \in 1..Len(texted) |->
            TitlePart(extract_text_from_shape(loaded.shapes[texted[n]]))]

\* the banded fragments, a column-break marker wherever column_number
\* changes from one banded shape to the next
ExpectedBanded ==
    LET b == BandedByPosition
        s(n) == loaded.shapes[b[n]]
        upto[n \in 0..Len(b)] ==
            IF n = 0 THEN <<>>
            ELSE upto[n - 1]
                 \o (IF n > 1 /\ s(n).column_number # s(n - 1).column_number
                     THEN <<ColumnPart(FALSE, s(n).column_number)>> ELSE <<>>)
                 \o (IF extract_text_from_shape(s(n)) # NoText
                     THEN <<[tag |-> IF s(n).label = "hasabkozi_cim"
                                     THEN "[SUBTITLE] " ELSE "",
                             text |-> extract_text_from_shape(s(n)),
                             column |-> None]>>
                     ELSE <<>>)
    IN  upto[Len(b)]

\* the marker that opens the first band of the page, if the page has one
OpeningMarkers ==
    {<<>>} \cup {<<ColumnPart(TRUE, loaded.shapes[BandedByPosition[1]].column_number)>> :
                    x \in {y \in {1} : Len(BandedByPosition) > 0}}

\* C17: the stream of a page lists the TITLE fragments by ascending top-y,
\* then the banded body-text and column-subtitle fragments by ascending
\* (column_number, row_number), with a column-break marker wherever
\* column_number changes, subtitles tagged SUBTITLE and body text untagged.
C17_TitlesThenBands ==
    lpc = "composed"
        => \E opening \in OpeningMarkers :
              page_text = ExpectedTitles \o opening \o ExpectedBanded

\* the maximal runs of digits and of other characters of an identifier
NaturalRuns(x) ==
    LET starts == {i \in 1..Len(x) :
                      i = 1 \/ (x[i] \in Digits) # (x[i - 1] \in Digits)}
        end(i) == Min({j \in i..Len(x) : j = Len(x) \/ j + 1 \in starts})
        nth(n) == CHOOSE i \in starts :
                      Cardinality({j \in starts : j < i}) = n - 1
    IN  <<>> \o [n \in 1..Cardinality(starts) |->
                    SubSeq(x, nth(n), end(nth(n)))]

IsDigitRun(run) == run[1] \in Digits

\* the number a run of digits writes
NumberOf(run) ==
    LET digit(c) == CASE c = "0" -> 0 [] c = "1" -> 1 [] c = "2" -> 2
        sum[n \in 0..Len(run)] ==
            IF n = 0 THEN 0 ELSE sum[n - 1] * 10 + digit(run[n])
    IN  sum[Len(run)]

\* a run without digits, letter case set aside
CaseFolded(run) == <<>> \o [k \in 1..Len(run) |-> Lower(run[k])]

\* two runs the natural order does not tell apart
SameRun(r, u) ==
    /\ IsDigitRun(r) = IsDigitRun(u)
    /\ IF IsDigitRun(r) THEN NumberOf(r) = NumberOf(u)
       ELSE CaseFolded(r) = CaseFolded(u)

\* run r before run u: digits by number, other runs lexically
RunBefore(r, u) ==
    /\ IsDigitRun(r) = IsDigitRun(u)
    /\ IF IsDigitRun(r) THEN NumberOf(r) < NumberOf(u)
       ELSE StrLess(CaseFolded(r), CaseFolded(u))

\* identifier x is before identifier y in the natural order
NaturallyBefore(x, y) ==
    LET Before(rx, ry) ==
            \E n \in 1..Len(ry) :
                /\ \A k \in 1..n - 1 : k <= Len(rx) /\ SameRun(rx[k], ry[k])
                /\ \/ n = Len(rx) + 1
                   \/ n <= Len(rx) /\ RunBefore(rx[n], ry[n])
    IN  Before(NaturalRuns(x), NaturalRuns(y))

\* x and y differ only in one embedded number, that of x being smaller
SmallerEmbeddedNumber(x, y) ==
    LET Smaller(rx, ry) ==
            /\ Len(rx) = Len(ry)
            /\ \E n \in 1..Len(rx) :
                  /\ IsDigitRun(rx[n]) /\ IsDigitRun(ry[n])
                  /\ NumberOf(rx[n]) < NumberOf(ry[n])
                  /\ \A k \in 1..Len(rx) : k # n => rx[k] = ry[k]
    IN  Smaller(NaturalRuns(x), NaturalRuns(y))

\* C18: the sorted identifiers stand in natural order, digit runs compared
\* by number and other runs without regard to case, and of two
\* identifiers that differ only in an embedded number the one with the
\* smaller number comes first.
C18_NaturalOrder ==
    bpc = "sorted"
        => \A i, j \in 1..Len(pairs) :
              /\ i < j => ~NaturallyBefore(pairs[j], pairs[i])
              /\ SmallerEmbeddedNumber(pairs[i], pairs[j]) => i < j

\* "a2" has been put before "a10"
C18_Witness ==
    /\ bpc = "sorted"
    /\ pairs = <<<<"a", "2">>, <<"a", "1", "0">>>>

\* process_files is running, or has run
FilesRun == pairs = <<>> /\ bpc \in {"files", "returned"}

\* the main loop of the layout processor is running, or has run
MainRun == pairs # <<>> /\ bpc \in {"layout", "returned"}

\* the pages the loop has gone through without an exception
PassedPages == (1..loop_i) \ raised

\* the files written for page i
OutputsOf(i) == {k \in 1..Len(outputs) : outputs[k][1] = i}

\* the calls of collect_column_content for the marker of page i
RunsOf(i) == {k \in 1..Len(runs) : runs[k].start = i}

\* C19: a failure on one page never ends a corpus-level run.  The loop goes
\* through the pages one by one and returns only after the last; a page on
\* which an exception is raised is skipped and counted as failed, every
\* other page is processed, and the count reported is the number of spans
\* saved (process_files) or of pages processed (layout processor).
C19_FailuresStayLocal ==
    /\ FilesRun =>
          /\ loop_i <= Len(all_pairs)
          /\ (bpc = "returned") = (loop_i = Len(all_pairs))
          /\ raised \subseteq 1..loop_i
          /\ found_columns = Len(outputs)
          /\ \A k \in 1..Len(outputs) :
                /\ outputs[k][1] \in PassedPages
                /\ k > 1 => outputs[k - 1][1] < outputs[k][1]
          /\ \A i \in PassedPages \cap MarkerPages(all_pairs) :
                \E k \in RunsOf(i) :
                    runs[k].content # <<>>
                        => \E o \in OutputsOf(i) :
                              outputs[o][2].column_content = runs[k].content
    /\ MainRun =>
          /\ loop_i <= Len(pairs)
          /\ (bpc = "returned") = (loop_i = Len(pairs))
          /\ raised \subseteq 1..loop_i
          /\ successful = Cardinality(PassedPages)
          /\ failed = Cardinality(raised)
          /\ \A i \in PassedPages : Cardinality(OutputsOf(i)) = 1
          /\ \A k \in 2..Len(outputs) : outputs[k - 1][1] < outputs[k][1]

\* process_files has returned: the first page raised, the span of a later
\* page is saved and counted
C19_Witness ==
    /\ FilesRun
    /\ bpc = "returned"
    /\ 1 \in raised
    /\ found_columns = 1
    /\ \E k \in 1..Len(outputs) : outputs[k][1] > 1

\* the marker of page i and the header of that page
MarkerOf(i) == all_pairs[i].shapes[Min(TokeMunkaHits(all_pairs[i].shapes))]

HeaderOf(i) ==
    LET titled == {k \in 1..Len(all_pairs[i].shapes) :
                      /\ all_pairs[i].shapes[k].label = "szeles_cim"
                      /\ extract_text_from_shape(all_pairs[i].shapes[k]) # NoText}
    IN  IF titled = {} THEN UnknownIssue
        ELSE extract_text_from_shape(all_pairs[i].shapes[Min(titled)])

\* the content collected for the marker of page i
ContentOf(i) == runs[CHOOSE k \in RunsOf(i) : TRUE].content

\* C20 as stated: every page with a marker has exactly one Span, a page
\* without a marker has none.
C20_OneSpanPerMarkerPage ==
    FilesRun
        => \A i \in PassedPages :
              Cardinality(OutputsOf(i))
                  = IF i \in MarkerPages(all_pairs) THEN 1 ELSE 0

\* C20: every page with a marker for which content was collected has
\* exactly one Span, with the header text, the content, the source page,
\* the start column and row and the content length; a page with a marker
\* for which nothing was collected, and a page without a marker, have none.
C20_OneSpanPerCollectedMarker ==
    FilesRun
        => \A i \in PassedPages :
              IF i \in MarkerPages(all_pairs) /\ ContentOf(i) # <<>>
              THEN /\ Cardinality(OutputsOf(i)) = 1
                   /\ \A o \in OutputsOf(i) :
                         /\ outputs[o][2].newspaper_header = HeaderOf(i)
                         /\ outputs[o][2].column_content = ContentOf(i)
                         /\ outputs[o][2].source_file = i
                         /\ outputs[o][2].start_column = MarkerOf(i).column_number
                         /\ outputs[o][2].start_row = MarkerOf(i).row_number
                         /\ outputs[o][2].content_length
                                = JoinedLength(ContentOf(i))
                         /\ outputs[o][2].content_length > 0
              ELSE OutputsOf(i) = {}

\* process_files has returned: one page has a marker and a Span, another
\* has a marker after which nothing was collected and no Span
C20_Witness ==
    /\ FilesRun
    /\ bpc = "returned"
    /\ raised = {}
    /\ \E i, j \in MarkerPages(all_pairs) :
          /\ Cardinality(OutputsOf(i)) = 1
          /\ ContentOf(j) = <<>>
          /\ OutputsOf(j) = {}

\* the pages of the corpus that carry a wide title
TitlePages ==
    {p \in 1..Len(all_pairs) :
        \E k \in 1..Len(all_pairs[p].shapes) :
            all_pairs[p].shapes[k].label = "szeles_cim"}

\* a subtitle that fails the marker test stands after the start on a page
\* before page t
SubtitleStopsBefore(t) ==
    \E p \in start_file_index..t - 1 :
        \E k \in 1..Len(all_pairs[p].shapes) :
            LET s == all_pairs[p].shapes[k]
            IN  /\ s.label = "hasabkozi_cim"
                /\ ~SatisfiesMarkerTest(s)
                /\ p = start_file_index
                      => \/ s.column_number > start_shape.column_number
                         \/ /\ s.column_number = start_shape.column_number
                            /\ s.row_number > start_shape.row_number

\* C21: on pages enriched by process_page_layout, a wide title on a page
\* after the marker's page, with no stop element before it, is the stop
\* element: the stop is on its page in column 0 and nothing of that page or
\* of a later one is collected.
C21_WideTitleStops ==
    (bpc = "files" /\ pc = "done")
        => \A t \in TitlePages :
              (/\ t > start_file_index
               /\ TitlePages \cap (start_file_index + 1..t - 1) = {}
               /\ ~SubtitleStopsBefore(t))
                  => /\ stop[1] = t
                     /\ stop[2] = 0
                     /\ \A n \in 1..Len(collected) : collected[n][1] < t

\* the subtitles without text that stand after the start
TextlessSubtitlesAfterStart ==
    {r \in StopElementsAfterStart :
        /\ ShapeAt(r).label = "hasabkozi_cim"
        /\ extract_text_from_shape(ShapeAt(r)) = NoText}

\* C22: a subtitle without text that stands after the start fails the
\* marker test and is a stop element: when it is the first stop element in
\* reading order, the search pass returns its Position.
C22_TextlessSubtitleStops ==
    (pc \in {"collect", "done"} /\ ~failedS)
        => \A r \in TextlessSubtitlesAfterStart :
              PositionOf(r) = ExpectedStop => stop = PositionOf(r)

----------------------------------------------------------------------------
(* The interval of the shapes "below" a bottommost body text.              *)

\* another shape has its top-y in the closed interval
\* [bottom - Tolerance, bottom + 3 * Tolerance] of shape k and overlaps it
\* horizontally
HasShapeInClosedInterval(k) ==
    \E j \in 1..Len(loaded.shapes) :
        /\ j # k
        /\ LoadedBox(j)[2] >= LoadedBox(k)[4] - Tolerance
        /\ LoadedBox(j)[2] <= LoadedBox(k)[4] + 3 * Tolerance
        /\ ~(LoadedBox(j)[3] < LoadedBox(k)[1] \/ LoadedBox(j)[1] > LoadedBox(k)[3])

\* the only shapes that overlap shape k horizontally and have their top-y
\* in the closed interval have it at an end of the interval
OnlyEndpointShapesBelow(k) ==
    /\ HasShapeInClosedInterval(k)
    /\ ~HasShapeBelow(k)

ClosedIntervalCandidates ==
    {k \in 1..Len(loaded.shapes) :
        PickedBottommost(k) /\ ~HasShapeInClosedInterval(k)}

ClosedIntervalTarget ==
    CHOOSE y \in {LoadedBox(k)[4] : k \in ClosedIntervalCandidates} :
        \A k \in ClosedIntervalCandidates : LoadedBox(k)[4] <= y

\* C23: a bottommost body text is corrected exactly when no other shape
\* overlaps it horizontally with top-y in the closed interval
\* [bottom - 50, bottom + 150]: with such a shape, one at top-y = bottom - 50
\* or bottom + 150 included, it keeps its points, and without one its bottom
\* becomes the greatest bottom of the body texts without one.
C23_ClosedIntervalBelow ==
    lpc = "processed"
        => \A k \in 1..Len(loaded.shapes) :
              (PickedBottommost(k) /\ Len(loaded.shapes[k].points) >= 2)
                  => IF HasShapeInClosedInterval(k)
                     THEN data.shapes[k].points = loaded.shapes[k].points
                     ELSE ProcessedBox(k)[4] = ClosedIntervalTarget

\* C23 as amended: the interval is open, (bottom - 50, bottom + 150): a
\* shape whose top-y equals bottom - 50 or bottom + 150 does not prevent
\* the correction.
C23_OpenIntervalBelow ==
    lpc = "processed"
        => \A k \in 1..Len(loaded.shapes) :
              (PickedBottommost(k) /\ Len(loaded.shapes[k].points) >= 2)
                  => IF HasShapeBelow(k)
                     THEN data.shapes[k].points = loaded.shapes[k].points
                     ELSE ProcessedBox(k)[4] = TargetBottom

\* a bottommost body text with bottom 100 whose only shape underneath
\* begins at 250 is pulled down, and one with bottom 300 whose only such
\* shape begins at 250 is a candidate as well
C23_Witness ==
    /\ lpc = "processed"
    /\ \E k \in CorrectionCandidates :
          /\ OnlyEndpointShapesBelow(k)
          /\ LoadedBox(k)[4] = 100
          /\ ProcessedBox(k)[4] > 100
    /\ \E k \in CorrectionCandidates :
          /\ OnlyEndpointShapesBelow(k)
          /\ LoadedBox(k)[4] = 300

----------------------------------------------------------------------------
(* Gaps of equal size.                                                     *)

\* gap i is taken before gap j when it is larger, and of two gaps of the
\* same size the one further left
LeftmostFirst(c, i, j) ==
    GapSize(c, i) > GapSize(c, j) \/ (GapSize(c, i) = GapSize(c, j) /\ i < j)

\* ... and of two gaps of the same size the one further right
RightmostFirst(c, i, j) ==
    GapSize(c, i) > GapSize(c, j) \/ (GapSize(c, i) = GapSize(c, j) /\ i > j)

\* twice the midpoints of the gaps a set of gap indices names, ascending
Mids2(c, chosen) ==
    <<GapMid2(c, CHOOSE i \in chosen : \A j \in chosen : i <= j),
      GapMid2(c, CHOOSE i \in chosen : \A j \in chosen : i >= j)>>

\* the boundaries of the page are those of every relisting of its shapes
SameForEveryListing ==
    \A p \in Permutations(1..Len(loaded.shapes)) :
        detect_column_boundaries(
            <<>> \o [k \in 1..Len(loaded.shapes) |-> loaded.shapes[p[k]]],
            ImageWidth(loaded)) = boundaries

\* a gap of the size of the second gap taken lies left of the gaps taken
\* and has another midpoint than they have
TieLeftOfTaken(c) ==
    \E i \in 1..Len(c) - 1 :
        /\ GapMid2(c, i) < 2 * boundaries[1]
        /\ \E j \in 1..Len(c) - 1 :
              /\ GapMid2(c, j) \in {2 * boundaries[1], 2 * boundaries[2]}
              /\ GapSize(c, j) = GapSize(c, i)

\* C24: with 3 or more candidates the boundaries are the midpoints of the
\* two gaps that come first when larger gaps go before smaller ones and, of
\* gaps of equal size, the leftmost goes first; and every listing order of
\* the page's shapes gives the same boundaries.
C24_LeftmostTieBreak ==
    (lpc = "detected" /\ Cardinality(Candidates) >= 3)
        => /\ \E c \in {SortedCenters} :
                 <<2 * boundaries[1], 2 * boundaries[2]>> =
                     Mids2(c, {i \in 1..Len(c) - 1 :
                                  Cardinality({j \in 1..Len(c) - 1 :
                                                  LeftmostFirst(c, j, i)}) < 2})
           /\ SameForEveryListing

\* C24 as amended: of gaps of equal size the rightmost goes first.
C24_RightmostTieBreak ==
    (lpc = "detected" /\ Cardinality(Candidates) >= 3)
        => /\ \E c \in {SortedCenters} :
                 <<2 * boundaries[1], 2 * boundaries[2]>> =
                     Mids2(c, {i \in 1..Len(c) - 1 :
                                  Cardinality({j \in 1..Len(c) - 1 :
                                                  RightmostFirst(c, j, i)}) < 2})
           /\ SameForEveryListing

\* centers listed 10, 2, 6, 4: the gaps 2-4 and 4-6 are equal, and the
\* boundaries are 5 and 8
C24_Witness ==
    /\ lpc = "detected"
    /\ Len(loaded.shapes) = 4
    /\ <<BoxCenter(1), BoxCenter(2), BoxCenter(3), BoxCenter(4)>>
           = <<120, 24, 72, 48>>
    /\ TieLeftOfTaken(SortedCenters)
    /\ boundaries = <<60, 96>>

----------------------------------------------------------------------------
(* The marker test.                                                        *)

\* a character in small letters and without its diacritic
Folded(c) ==
    CASE c \in {"T", "t"} -> "t" [] c \in {"O^", "o^", "O", "o"} -> "o"
      [] c \in {"K", "k"} -> "k" [] c \in {"E^", "e^", "E", "e"} -> "e"
      [] c \in {"M", "m"} -> "m" [] c \in {"U", "u"} -> "u"
      [] c \in {"N", "n"} -> "n" [] c \in {"A", "a"} -> "a"
      [] OTHER -> c

\* the word stands somewhere in the text of the shape, letter after letter
HasWord(word, shape) ==
    /\ "ocr_text" \in DOMAIN shape
    /\ \E c \in {Chars(shape.ocr_text)} :
          \E k \in 0..(Len(c) - Len(word)) :
              \A i \in 1..Len(word) : Folded(c[k + i]) = word[i]

\* the shape is a column subtitle whose text has both words
HasBothWords(shape) ==
    /\ shape.label = "hasabkozi_cim"
    /\ HasWord(<<"t", "o", "k", "e">>, shape)
    /\ HasWord(<<"m", "u", "n", "k", "a">>, shape)

\* process_files has looked for the marker of its first page and found one
MarkerReported == loop_i = 0 /\ start_file_index = 1

\* C25: the shape find_toke_munka_subtitle reports is a column subtitle
\* whose text, in small letters and without diacritics, contains both words,
\* each looked for on its own; a shape of another label or a subtitle
\* missing a word is never reported.
C25_MarkerOnlyIfBothWords ==
    (bpc = "files" /\ MarkerReported)
        => /\ start_shape \in {all_pairs[1].shapes[k] :
                                  k \in 1..Len(all_pairs[1].shapes)}
           /\ HasBothWords(start_shape)

\* a body text with both words is passed over and the subtitle after it,
\* in which the words stand apart or in the other order, is reported
C25_Witness ==
    /\ bpc = "files"
    /\ MarkerReported
    /\ Len(all_pairs[1].shapes) = 2
    /\ all_pairs[1].shapes[1].label = "szoveg"
    /\ HasBothWords([all_pairs[1].shapes[1] EXCEPT !.label = "hasabkozi_cim"])
    /\ start_shape = all_pairs[1].shapes[2]
    /\ start_shape.ocr_text \in {ReversedText, ApartText}

----------------------------------------------------------------------------
(* The text of a shape.                                                    *)

\* the shape the text is extracted from
InputShape == loaded.shapes[1]

\* every text field the shape has holds a string
OnlyStrings ==
    \A f \in TextFields \cap DOMAIN InputShape :
        InputShape[f] \notin {JsonNull, JsonZero, JsonSeven}

\* the first value in this order that is more than whitespace, without the
\* whitespace around it; NoText when there is none
FirstNonEmpty(order) ==
    LET filled == {k \in 1..Len(order) :
                      /\ order[k] \in DOMAIN InputShape
                      /\ InputShape[order[k]] \notin {NoText, BlankText}}
        Trimmed(value) == IF value = PaddedText THEN BodyText ELSE value
    IN  IF filled = {} THEN NoText
        ELSE Trimmed(InputShape[order[CHOOSE k \in filled :
                                          \A j \in filled : k <= j]])

\* both copies return this text
BothReturn(text) ==
    /\ page_text = <<[tag |-> "returned", text |-> text]>>
    /\ content_parts = <<[tag |-> "returned", text |-> text]>>

\* C26: the text extracted from a shape whose fields hold strings is the
\* first non-empty value in the order text, ocr_text, description, content,
\* value: the direct text when text and ocr_text are both non-empty, and no
\* text when all are empty or absent.
C26_DirectTextFirst ==
    (lpc = "extracted" /\ OnlyStrings)
        => BothReturn(FirstNonEmpty(<<"text", "ocr_text", "description",
                                      "content", "value">>))

\* C26 as amended: the order is ocr_text, text, description, content,
\* value: the ocr_text when text and ocr_text are both non-empty.
C26_OcrTextFirst ==
    (lpc = "extracted" /\ OnlyStrings)
        => BothReturn(FirstNonEmpty(<<"ocr_text", "text", "description",
                                      "content", "value">>))

\* a shape with a text and an ocr_text gives its ocr_text, one with a blank
\* ocr_text and a padded text gives the text without the padding
C26_Witness ==
    /\ lpc = "extracted"
    /\ OnlyStrings
    /\ {"ocr_text", "text"} \subseteq DOMAIN InputShape
    /\ \/ /\ InputShape.ocr_text = MarkerText
          /\ InputShape.text = OtherText
          /\ BothReturn(MarkerText)
       \/ /\ InputShape.ocr_text = BlankText
          /\ InputShape.text = PaddedText
          /\ BothReturn(BodyText)

\* C30: on every shape, whatever its text fields hold, the two copies of
\* extract_text_from_shape return the same text or both return none, and
\* neither raises.
C30_CopiesAgree ==
    lpc = "extracted"
        => /\ page_text = content_parts
           /\ page_text[1].tag = "returned"
           /\ content_parts[1].tag = "returned"

----------------------------------------------------------------------------
(* Shapes without text and shapes without geometry in the stream.          *)

\* the fragments among the parts, without the column-break markers
Fragments(parts) == SelectSeq(parts, LAMBDA part : part.column = None)

\* C27: no fragment of the stream is empty, and the fragments are those of
\* the text-bearing wide titles and banded shapes of the page in their
\* order, whatever shapes without text or without geometry the page has.
C27_DegradedShapesSkipped ==
    lpc = "composed"
        => /\ \A n \in 1..Len(page_text) :
                 page_text[n].column = None => page_text[n].text # NoText
           /\ Fragments(page_text)
                  = Fragments(<<>> \o ExpectedTitles \o ExpectedBanded)

----------------------------------------------------------------------------
(* Shapes of fewer than 2 points in the layout processor.                  *)

\* the least y among the points of shape j of the page read, 0 for a shape
\* of fewer than 2 points
PointsTop(j) ==
    IF Len(loaded.shapes[j].points) < 2 THEN 0
    ELSE CHOOSE y \in {loaded.shapes[j].points[i][2] :
                          i \in 1..Len(loaded.shapes[j].points)} :
             \A i \in 1..Len(loaded.shapes[j].points) :
                 y <= loaded.shapes[j].points[i][2]

\* the shapes of the page read whose points list has fewer than 2 points
PointPoor == {k \in 1..Len(loaded.shapes) : Len(loaded.shapes[k].points) < 2}

\* the band of a shape whose center-x is 0
BandOfZero ==
    IF 0 < boundaries[1] THEN 1 ELSE IF 0 < boundaries[2] THEN 2 ELSE 3

\* 1-based rank in the band of shape k of a shape whose box is
\* (0, 0, 0, 0), by ascending top-y, equal tops in the order of the list
RankOfZeroTop(k) ==
    Cardinality({j \in Band(data.shapes[k].column_number) :
                    \/ PointsTop(j) < 0
                    \/ PointsTop(j) = 0 /\ j < k}) + 1

\* C28: a shape of fewer than 2 points is processed as a shape with box
\* (0, 0, 0, 0) and center-x 0: process_page_layout ends, a wide title gets
\* column_number 0, every other such shape gets the band of center 0 and
\* the row_number of top-y 0 in it, and its points stay as they were read.
C28_PointPoorShapes ==
    lpc = "processed"
        => \A k \in PointPoor :
              /\ data.shapes[k].points = loaded.shapes[k].points
              /\ IF loaded.shapes[k].label = "szeles_cim"
                 THEN data.shapes[k].column_number = 0
                 ELSE /\ data.shapes[k].column_number = BandOfZero
                      /\ "row_number" \in DOMAIN data.shapes[k]
                      /\ data.shapes[k].row_number = RankOfZeroTop(k)

\* a body text whose one point is (8, 400) is the first of band 1 and a
\* correction candidate while another candidate has bottom 500, and keeps
\* its point
C28_Witness ==
    /\ lpc = "processed"
    /\ \E k \in PointPoor \cap CorrectionCandidates :
          /\ loaded.shapes[k].points = <<<<8, 400>>>>
          /\ TargetBottom = 500
          /\ data.shapes[k].column_number = 1
          /\ data.shapes[k].row_number = 1
          /\ data.shapes[k].points = <<<<8, 400>>>>

----------------------------------------------------------------------------
(* The layout processor run over its own output.                           *)

\* the record the second run has read holds a body text that the first
\* run had pulled down to 500 from a bottom edge further up
SecondRunOfCorrectedPage ==
    /\ lpc = "reprocessed"
    /\ \E k \in 1..Len(loaded.shapes) :
          /\ loaded.shapes[k].label = "szoveg"
          /\ LoadedBox(k)[4] = 500
          /\ LoadedBox(k)[2] < 400
          /\ "row_number" \in DOMAIN loaded.shapes[k]

\* C29: process_page_layout applied to its own output leaves every shape's
\* column_number, row_number and bounding box as the first application
\* left them.
C29_Idempotent ==
    lpc = "reprocessed"
        => /\ Len(data.shapes) = Len(loaded.shapes)
           /\ \A k \in 1..Len(data.shapes) :
                 /\ data.shapes[k].column_number = loaded.shapes[k].column_number
                 /\ "row_number" \in DOMAIN data.shapes[k]
                        <=> "row_number" \in DOMAIN loaded.shapes[k]
                 /\ "row_number" \in DOMAIN data.shapes[k]
                        => data.shapes[k].row_number = loaded.shapes[k].row_number
                 /\ ProcessedBox(k) = LoadedBox(k)

\* the second run over such a page has left the body text where it was
C29_Witness ==
    /\ SecondRunOfCorrectedPage
    /\ \A k \in 1..Len(data.shapes) :
          /\ ProcessedBox(k) = LoadedBox(k)
          /\ data.shapes[k].column_number = loaded.shapes[k].column_number

====
